---- MODULE Spec2Model ----
(***************************************************************************)
(* Provider application / verification workflow and registration payment   *)
(* activation of the bharatabhiyan backend, as a state machine over the    *)
(* database tables the request handlers read and write.                    *)
(*                                                                         *)
(* Tables are sequences of rows; a row's primary key is its index.         *)
(* Each action is one request handler (an API view, an admin action or an  *)
(* admin change form) and records in `last` the handler, its HTTP status   *)
(* code and, where the code does not tell outcomes apart, the message      *)
(* level or the template it renders, together with request.user (None for  *)
(* a view open to anyone) and, for the views that name their target in the *)
(* request, the keys of the request that name it (req).                    *)
(***************************************************************************)
EXTENDS Integers, Sequences, FiniteSets, TLC

VARIABLES users, providers, payments, subscriptions, orders, inflight, now, captain_profiles, last

vars == <<users, providers, payments, subscriptions, orders, inflight, now, captain_profiles, last>>

----------------------------------------------------------------------------
(* Bounds of the model.                                                    *)

MaxUsers == 2

MaxProviders == 1

MaxPayments == 2

MaxOrders == 2

MaxTime == 1

MaxGatewayPayments == 1

NumCategories == 2

NumTypes == 1

NumAreas == 1

MaxTrackedFields == 0

MaxSubscriptions == 2

\* Requests that may be between their queries and their write at one time.
MaxInflight == 2

\* The calendar year in which day 1 of the clock falls.
EpochYear == 2024

\* The last day of the clock on which the calendar runs confirm a payment
\* (two years, one of them a leap year).
MaxStartDay == 731

\* The days that pass in one step of the runs that let subscriptions expire,
\* and the last day their clock reaches.
ElapseDays == 31

MaxClock == 63

----------------------------------------------------------------------------
(* Values.                                                                 *)

\* Python None / SQL NULL for a foreign key or a timestamp.
None == 0

UserIds == 1..MaxUsers

VERIFICATION_STATUS_CHOICES == {"DRAFT", "PENDING_VERIFICATION", "VERIFIED", "REJECTED"}

\* Reference data: ServiceCategory, ServiceType and ServiceArea rows.
Categories == 1..NumCategories

Types == 1..NumTypes

Areas == 1..NumAreas

\* ServiceType.category: every type belongs to exactly one category.
TypeCategory(t) == NumCategories - ((t - 1) % NumCategories)

\* Texts a rejection_reason can hold: '' or a reason typed by an administrator.
Reasons == {"", "reason"}

\* ServiceProvider columns that may be empty on a saved row (null=True).
NullableFields == <<"city", "profile_photo", "aadhaar_front", "aadhaar_back", "address_proof_type", "address_proof">>

\* The nullable columns whose content the model follows; the other nullable
\* columns are supplied by every create request and never cleared.
TrackedFields == {NullableFields[i] : i \in 1..(IF MaxTrackedFields < Len(NullableFields) THEN MaxTrackedFields ELSE Len(NullableFields))}

\* Attributes of a ServiceProvider instance (model fields and relations).
ModelAttributes == {"user", "whatsapp_number", "business_name", "experience", "business_address", "city", "pincode", "service_categories", "service_types", "service_description", "service_areas", "aadhaar_front", "aadhaar_back", "address_proof_type", "address_proof", "profile_photo", "skill_certificate", "application_id", "verification_status", "verified_by", "verification_date", "rejection_reason", "submitted_at", "created_at", "updated_at", "subscriptions"}

\* required_fields of submit_provider_application, in the order it walks them.
RequiredFields == <<"whatsapp_number", "business_name", "experience", "business_address", "city", "pincode", "service_category", "service_type", "service_description", "aadhaar_front", "aadhaar_back", "address_proof_type", "address_proof", "profile_photo">>

\* The three declarations ServiceProviderSubmitSerializer asks for.
Declarations == {"confirm_declaration", "accept_terms", "consent_kyc"}

----------------------------------------------------------------------------
(* Accounts.                                                               *)

\* UserManager.create_superuser: the account that administers the site.
Superuser == [phone |-> 1, email |-> None, is_captain |-> FALSE, is_admin |-> TRUE, is_staff |-> TRUE, is_superuser |-> TRUE, is_active |-> TRUE, admin_verified |-> FALSE, password |-> TRUE]

\* UserRegistrationSerializer.create: a blank phone or email is stored as
\* None, is_active is left to the model default; password is whether the
\* optional password was sent (set_password).
NewUser(phone, email, is_captain, password) == [phone |-> phone, email |-> email, is_captain |-> is_captain, is_admin |-> FALSE, is_staff |-> FALSE, is_superuser |-> FALSE, is_active |-> TRUE, admin_verified |-> ~is_captain, password |-> password]

UserExists(u) == u \in 1..Len(users)

\* User.objects.get(phone=phone) / get(email=email): the account, or None.
AccountByPhone(phone) == IF \E a \in 1..Len(users) : users[a].phone = phone THEN CHOOSE a \in 1..Len(users) : users[a].phone = phone ELSE None

AccountByEmail(email) == IF \E a \in 1..Len(users) : users[a].email = email THEN CHOOSE a \in 1..Len(users) : users[a].email = email ELSE None

\* JWT authentication: the token's user exists and is active.
Authenticated(u) == UserExists(u) /\ users[u].is_active

\* AdminSite.has_permission plus the model permissions of a superuser.
HasAdminAccess(u) == UserExists(u) /\ users[u].is_active /\ users[u].is_staff /\ users[u].is_superuser

\* User.captain_code: generated for captains only, unique per account.
CaptainCode(u) == IF users[u].is_captain THEN u ELSE None

----------------------------------------------------------------------------
(* Provider rows.                                                          *)

ProviderIds == 1..Len(providers)

\* user.provider_profile: the row of the one-to-one relation, or None.
ProviderProfile(u) == IF \E p \in ProviderIds : providers[p].user = u THEN CHOOSE p \in ProviderIds : providers[p].user = u ELSE None

\* An optional request value: {} when the key is absent, {v} when it is sent.
Optional(S) == {{}} \cup {{v} : v \in S}

Sent(x) == x # {}

Value(x) == CHOOSE v \in x : TRUE

\* Bodies of a profile request (multipart form). `valid` is whether the scalar
\* fields pass ModelSerializer validation; `set` / `clear` are the nullable
\* columns sent with a value / sent empty; the three lists are the client keys
\* service_category, service_type and service_areas.
ProfileRequests == {d \in [valid : BOOLEAN, set : SUBSET TrackedFields, clear : SUBSET TrackedFields, service_category : Optional(SUBSET Categories), service_type : Optional(SUBSET Types), service_areas : Optional(SUBSET Areas)] : d.set \cap d.clear = {} /\ (~d.valid => d.set = {} /\ d.clear = {} /\ ~Sent(d.service_category) /\ ~Sent(d.service_type) /\ ~Sent(d.service_areas))}

\* ServiceProviderCreateSerializer: the three lists are required=True.
CreateIsValid(data) == data.valid /\ Sent(data.service_category) /\ Sent(data.service_type) /\ Sent(data.service_areas)

\* ServiceProviderUpdateSerializer with partial=True: nothing is required.
UpdateIsValid(data) == data.valid

\* ServiceProviderCreateSerializer.create
CreateRow(u, data) == [user |-> u, filled |-> data.set, service_categories |-> Value(data.service_category), service_types |-> Value(data.service_type), service_areas |-> Value(data.service_areas), verification_status |-> "DRAFT", verified_by |-> None, verification_date |-> None, rejection_reason |-> "", submitted_at |-> None]

\* ServiceProviderUpdateSerializer.update without the reset of verified_by.
UpdateRowKeepsVerifier(instance, data) == [instance EXCEPT !.filled = (@ \ data.clear) \cup data.set, !.service_categories = IF Sent(data.service_category) THEN Value(data.service_category) ELSE @, !.service_types = IF Sent(data.service_type) THEN Value(data.service_type) ELSE @, !.service_areas = IF Sent(data.service_areas) THEN Value(data.service_areas) ELSE @, !.verification_status = "DRAFT", !.rejection_reason = ""]

\* ServiceProviderUpdateSerializer.update
UpdateRow(instance, data) == [instance EXCEPT !.filled = (@ \ data.clear) \cup data.set, !.service_categories = IF Sent(data.service_category) THEN Value(data.service_category) ELSE @, !.service_types = IF Sent(data.service_type) THEN Value(data.service_type) ELSE @, !.service_areas = IF Sent(data.service_areas) THEN Value(data.service_areas) ELSE @, !.verification_status = "DRAFT", !.rejection_reason = "", !.verified_by = None]

\* The create-or-update dispatch shared by both profile views:
\* serializer.is_valid(), serializer.save(), and the response code.
SaveProfile(op, u, data) ==
    LET p == ProviderProfile(u) IN
    IF p # None
    THEN IF UpdateIsValid(data)
         THEN /\ providers' = [providers EXCEPT ![p] = UpdateRow(@, data)]
              /\ last' = [op |-> op, code |-> 200, detail |-> "", user |-> u, req |-> <<>>]
         ELSE /\ UNCHANGED providers
              /\ last' = [op |-> op, code |-> 400, detail |-> "", user |-> u, req |-> <<>>]
    ELSE /\ Len(providers) < MaxProviders
         /\ IF CreateIsValid(data)
            THEN /\ providers' = Append(providers, CreateRow(u, data))
                 /\ last' = [op |-> op, code |-> 200, detail |-> "", user |-> u, req |-> <<>>]
            ELSE /\ UNCHANGED providers
                 /\ last' = [op |-> op, code |-> 400, detail |-> "", user |-> u, req |-> <<>>]

\* POST providers/profile
CreateProviderProfile(u, data) ==
    /\ Authenticated(u)
    /\ IF ~users[u].is_active
       THEN /\ UNCHANGED providers
            /\ last' = [op |-> "create_provider_profile", code |-> 400, detail |-> "", user |-> u, req |-> <<>>]
       ELSE SaveProfile("create_provider_profile", u, data)
    /\ UNCHANGED <<captain_profiles, users, payments, orders, now, subscriptions, inflight>>

\* POST providers/profile/me
PostProviderProfile(u, data) ==
    /\ Authenticated(u)
    /\ SaveProfile("get_provider_profile", u, data)
    /\ UNCHANGED <<captain_profiles, users, payments, orders, now, subscriptions, inflight>>

\* getattr(provider, field) raises AttributeError for a name the model lacks.
AttributeRaised == \E i \in 1..Len(RequiredFields) : RequiredFields[i] \notin ModelAttributes

\* Truth value of getattr(provider, field): a nullable column is falsy when
\* empty; the other columns hold validated non-blank values and a related
\* manager is an object, hence truthy.
FieldTruthy(row, f) == IF f \in TrackedFields THEN f \in row.filled ELSE TRUE

\* missing_fields of submit_provider_application.
MissingFields(row) == {RequiredFields[i] : i \in {j \in 1..Len(RequiredFields) : ~FieldTruthy(row, RequiredFields[j])}}

\* submit_provider_application without its "already submitted" check.
SubmitResultNoStatusCheck(row, decl) ==
    IF decl # Declarations THEN [code |-> 400, row |-> row]
    ELSE IF AttributeRaised THEN [code |-> 500, row |-> row]
    ELSE IF MissingFields(row) # {} THEN [code |-> 400, row |-> row]
    ELSE IF row.service_areas = {} THEN [code |-> 400, row |-> row]
    ELSE [code |-> 200, row |-> [row EXCEPT !.verification_status = "PENDING_VERIFICATION", !.submitted_at = now, !.rejection_reason = ""]]

\* submit_provider_application after the profile lookup: the response code
\* and the row as saved.
SubmitResult(row, decl) ==
    IF row.verification_status \notin {"DRAFT", "REJECTED"} THEN [code |-> 400, row |-> row]
    ELSE IF decl # Declarations THEN [code |-> 400, row |-> row]
    ELSE IF AttributeRaised THEN [code |-> 500, row |-> row]
    ELSE IF MissingFields(row) # {} THEN [code |-> 400, row |-> row]
    ELSE IF row.service_areas = {} THEN [code |-> 400, row |-> row]
    ELSE [code |-> 200, row |-> [row EXCEPT !.verification_status = "PENDING_VERIFICATION", !.submitted_at = now, !.rejection_reason = ""]]

\* POST providers/profile/submit; decl is the set of declarations sent as true.
SubmitProviderApplication(u, decl) ==
    /\ Authenticated(u)
    /\ LET p == ProviderProfile(u) IN
       IF p = None
       THEN /\ UNCHANGED providers
            /\ last' = [op |-> "submit_provider_application", code |-> 404, detail |-> "", user |-> u, req |-> <<>>]
       ELSE /\ providers' = [providers EXCEPT ![p] = SubmitResult(@, decl).row]
            /\ last' = [op |-> "submit_provider_application", code |-> SubmitResult(providers[p], decl).code, detail |-> "", user |-> u, req |-> <<>>]
    /\ UNCHANGED <<captain_profiles, users, payments, orders, now, subscriptions, inflight>>

\* verify_provider_service without its PENDING_VERIFICATION check.
VerifyResultNoPendingCheck(u, profile_id, captain_code, image) ==
    IF ~users[u].is_captain THEN [code |-> 403, changed |-> FALSE]
    ELSE IF profile_id = None THEN [code |-> 400, changed |-> FALSE]
    ELSE IF captain_code = None THEN [code |-> 400, changed |-> FALSE]
    ELSE IF ~image THEN [code |-> 400, changed |-> FALSE]
    ELSE IF CaptainCode(u) # captain_code THEN [code |-> 400, changed |-> FALSE]
    ELSE IF profile_id \notin ProviderIds THEN [code |-> 404, changed |-> FALSE]
    ELSE IF providers[profile_id].verification_status = "VERIFIED" THEN [code |-> 400, changed |-> FALSE]
    ELSE [code |-> 200, changed |-> TRUE]

\* verify_provider_service after the form data is read: the response code and
\* the row as saved. profile_id, captain_code are None when the key is absent.
VerifyResult(u, profile_id, captain_code, image) ==
    IF ~users[u].is_captain THEN [code |-> 403, changed |-> FALSE]
    ELSE IF profile_id = None THEN [code |-> 400, changed |-> FALSE]
    ELSE IF captain_code = None THEN [code |-> 400, changed |-> FALSE]
    ELSE IF ~image THEN [code |-> 400, changed |-> FALSE]
    ELSE IF CaptainCode(u) # captain_code THEN [code |-> 400, changed |-> FALSE]
    ELSE IF profile_id \notin ProviderIds THEN [code |-> 404, changed |-> FALSE]
    ELSE IF providers[profile_id].verification_status = "VERIFIED" THEN [code |-> 400, changed |-> FALSE]
    ELSE IF providers[profile_id].verification_status # "PENDING_VERIFICATION" THEN [code |-> 400, changed |-> FALSE]
    ELSE [code |-> 200, changed |-> TRUE]

\* The assignments of verify_provider_service before provider.save().
VerifiedRow(row, u) == [row EXCEPT !.verification_status = "VERIFIED", !.verified_by = u, !.verification_date = now]

\* POST verify_provider_service
VerifyProviderService(u, profile_id, captain_code, image) ==
    /\ Authenticated(u)
    /\ LET r == VerifyResult(u, profile_id, captain_code, image) IN
       /\ providers' = IF r.changed THEN [providers EXCEPT ![profile_id] = VerifiedRow(@, u)] ELSE providers
       /\ last' = [op |-> "verify_provider_service", code |-> r.code, detail |-> "", user |-> u, req |-> <<profile_id>>]
    /\ UNCHANGED <<captain_profiles, users, payments, orders, now, subscriptions, inflight>>

\* The role check that opens both admin actions.
AdminActionAllowed(u) == ~(~users[u].is_captain /\ ~users[u].is_admin)

\* queryset.filter(verification_status='PENDING_VERIFICATION').update(...)
BulkUpdate(queryset, status, u) == [p \in ProviderIds |-> IF p \in queryset /\ providers[p].verification_status = "PENDING_VERIFICATION" THEN [providers[p] EXCEPT !.verification_status = status, !.verified_by = u, !.verification_date = now] ELSE providers[p]]

\* ServiceProviderAdmin.verify_providers
AdminVerifyProviders(u, queryset) ==
    /\ HasAdminAccess(u)
    /\ IF AdminActionAllowed(u)
       THEN /\ providers' = BulkUpdate(queryset, "VERIFIED", u)
            /\ last' = [op |-> "verify_providers", code |-> 302, detail |-> "info", user |-> u, req |-> <<>>]
       ELSE /\ UNCHANGED providers
            /\ last' = [op |-> "verify_providers", code |-> 302, detail |-> "error", user |-> u, req |-> <<>>]
    /\ UNCHANGED <<captain_profiles, users, payments, orders, now, subscriptions, inflight>>

\* ServiceProviderAdmin.reject_providers
AdminRejectProviders(u, queryset) ==
    /\ HasAdminAccess(u)
    /\ IF AdminActionAllowed(u)
       THEN /\ providers' = BulkUpdate(queryset, "REJECTED", u)
            /\ last' = [op |-> "reject_providers", code |-> 302, detail |-> "info", user |-> u, req |-> <<>>]
       ELSE /\ UNCHANGED providers
            /\ last' = [op |-> "reject_providers", code |-> 302, detail |-> "error", user |-> u, req |-> <<>>]
    /\ UNCHANGED <<captain_profiles, users, payments, orders, now, subscriptions, inflight>>

\* Choices of the verified_by select: limit_choices_to={'is_captain': True}.
VerifiedByChoices == {None} \cup {c \in 1..Len(users) : users[c].is_captain}

\* The change form of ServiceProviderAdmin: verification_status, verified_by
\* and rejection_reason are editable fields of its fieldsets.
AdminChangeProvider(u, p, status, verified_by, reason) ==
    /\ HasAdminAccess(u)
    /\ p \in ProviderIds
    /\ verified_by \in VerifiedByChoices
    /\ providers' = [providers EXCEPT ![p] = [@ EXCEPT !.verification_status = status, !.verified_by = verified_by, !.rejection_reason = reason]]
    /\ last' = [op |-> "admin_change_provider", code |-> 302, detail |-> "", user |-> u, req |-> <<>>]
    /\ UNCHANGED <<captain_profiles, users, payments, orders, now, subscriptions, inflight>>

\* The change form of UserAdmin: is_active, is_staff and is_superuser are
\* editable fields of its fieldsets.
AdminChangeUser(u, target, is_active, is_staff) ==
    /\ HasAdminAccess(u)
    /\ UserExists(target)
    /\ users' = [users EXCEPT ![target] = [@ EXCEPT !.is_active = is_active, !.is_staff = is_staff, !.is_superuser = is_staff]]
    /\ last' = [op |-> "admin_change_user", code |-> 302, detail |-> "", user |-> u, req |-> <<>>]
    /\ UNCHANGED <<captain_profiles, providers, payments, orders, now, subscriptions, inflight>>

----------------------------------------------------------------------------
(* Registration payments.                                                  *)

PaymentIds == 1..Len(payments)

\* settings.RAZORPAY_KEY_SECRET and a key an outsider might sign with.
KeySecret == "RAZORPAY_KEY_SECRET"

Keys == {KeySecret, "other_key"}

\* The text f"{razorpay_order_id}|{razorpay_payment_id}" that is signed.
SignedText(order_id, payment_id) == <<order_id, "|", payment_id>>

\* hmac.new(key, text, sha256).hexdigest(): modelled as collision free, so a
\* digest is equal to another one only for the same key and the same text.
HmacSha256(key, text) == <<key, text>>

\* Gateway order ids ('order_...'), gateway payment ids ('pay_...').
OrderIds == 1..MaxOrders

GatewayPaymentIds == 1..MaxGatewayPayments

\* Signatures a callback can carry: <<>> when the key is absent.
Signatures == {<<>>} \cup {HmacSha256(k, SignedText(o, p)) : k \in Keys, o \in OrderIds, p \in GatewayPaymentIds}

\* QuerySet.first() under Meta.ordering = ['-created_at']: the newest match.
FirstPayment(S) == IF S = {} THEN None ELSE CHOOSE i \in S : \A j \in S : j <= i

\* RegistrationPayment.objects.create(...) in create_payment_link.
NewPayment(user_id, ref) == [user |-> user_id, status |-> "PENDING", gateway_ref |-> ref, gateway_order_id |-> None]

\* create_payment_link that does not look for an existing PENDING payment.
CreatePaymentLinkNoPendingLookup(user_id, gateway_ok) ==
    LET reply(code) == /\ last' = [op |-> "create_payment_link", code |-> code, detail |-> "", user |-> None, req |-> <<>>]
                       /\ UNCHANGED <<payments, orders>>
    IN
    /\ IF user_id = None THEN reply(400)
       ELSE IF ~UserExists(user_id) THEN reply(404)
       ELSE IF \E i \in PaymentIds : payments[i].user = user_id /\ payments[i].status = "SUCCESS" THEN reply(400)
       ELSE IF ~gateway_ok THEN reply(500)
       ELSE /\ orders < MaxOrders
            /\ Len(payments) < MaxPayments
            /\ orders' = orders + 1
            /\ payments' = Append(payments, NewPayment(user_id, orders + 1))
            /\ last' = [op |-> "create_payment_link", code |-> 201, detail |-> "", user |-> None, req |-> <<>>]
    /\ UNCHANGED <<captain_profiles, users, providers, now, subscriptions, inflight>>

\* POST payments/registration/create-link; user_id is None when the key is
\* absent, gateway_ok is whether razorpay_client.order.create returns; a 200
\* carries the payment_id of the existing payment.
CreatePaymentLink(user_id, gateway_ok) ==
    LET existing == FirstPayment({i \in PaymentIds : payments[i].user = user_id /\ payments[i].status = "PENDING"})
        reply(code) == /\ last' = [op |-> "create_payment_link", code |-> code, detail |-> IF code = 200 THEN ToString(existing) ELSE "", user |-> None, req |-> <<>>]
                       /\ UNCHANGED <<payments, orders>>
    IN
    /\ IF user_id = None THEN reply(400)
       ELSE IF ~UserExists(user_id) THEN reply(404)
       ELSE IF \E i \in PaymentIds : payments[i].user = user_id /\ payments[i].status = "SUCCESS" THEN reply(400)
       ELSE IF existing # None /\ payments[existing].gateway_ref # None THEN reply(200)
       ELSE IF ~gateway_ok THEN reply(500)
       ELSE /\ orders < MaxOrders
            /\ orders' = orders + 1
            /\ IF existing # None
               THEN payments' = [payments EXCEPT ![existing].gateway_ref = orders + 1]
               ELSE /\ Len(payments) < MaxPayments
                    /\ payments' = Append(payments, NewPayment(user_id, orders + 1))
            /\ last' = [op |-> "create_payment_link", code |-> 201, detail |-> "", user |-> None, req |-> <<>>]
    /\ UNCHANGED <<captain_profiles, users, providers, now, subscriptions, inflight>>

\* payment_callback accepting whatever signature it is sent.
SignatureNotCompared(order_id, payment_id, signature) == TRUE

\* A comparison that accepts a digest made with any key.
SignatureOfAnyKey(order_id, payment_id, signature) == \E k \in Keys : HmacSha256(k, SignedText(order_id, payment_id)) = signature

\* The signature comparison of payment_callback.
SignatureMatches(order_id, payment_id, signature) == HmacSha256(KeySecret, SignedText(order_id, payment_id)) = signature

\* RegistrationPayment.objects.filter(gateway_ref=..., status='PENDING').first()
PendingPaymentFor(order_id) == FirstPayment({i \in PaymentIds : payments[i].gateway_ref = order_id /\ payments[i].status = "PENDING"})

\* The page payment_callback renders; order_id and payment_id are None and
\* signature is <<>> when the key is absent.
CallbackPage(post, order_id, payment_id, signature) ==
    IF ~post THEN "payment_error.html"
    ELSE IF order_id = None \/ payment_id = None \/ signature = <<>> THEN "payment_error.html"
    ELSE IF ~SignatureMatches(order_id, payment_id, signature) THEN "payment_failure.html"
    ELSE IF PendingPaymentFor(order_id) = None THEN "payment_error.html"
    ELSE "payment_success.html"

\* payment.status = 'SUCCESS'; payment.gateway_order_id = ...; payment.save()
PaidRow(row, payment_id) == [row EXCEPT !.status = "SUCCESS", !.gateway_order_id = payment_id]

\* if not user.is_active: user.is_active = True; user.save()
ActivatedUser(row) == [row EXCEPT !.is_active = TRUE]

\* payments/registration/callback
PaymentCallback(post, order_id, payment_id, signature) ==
    /\ IF CallbackPage(post, order_id, payment_id, signature) = "payment_success.html"
       THEN LET i == PendingPaymentFor(order_id) IN
            /\ payments' = [payments EXCEPT ![i] = PaidRow(@, payment_id)]
            /\ users' = [users EXCEPT ![payments[i].user] = ActivatedUser(@)]
       ELSE UNCHANGED <<payments, users>>
    /\ last' = [op |-> "payment_callback", code |-> 200, detail |-> CallbackPage(post, order_id, payment_id, signature), user |-> None, req |-> <<order_id, payment_id, signature>>]
    /\ UNCHANGED <<captain_profiles, providers, orders, now, subscriptions, inflight>>

\* RegistrationPayment.STATUS_CHOICES
PAYMENT_STATUS_CHOICES == {"PENDING", "SUCCESS", "FAILED"}

\* The change form of RegistrationPaymentAdmin: status is an editable field.
AdminChangePayment(u, i, status) ==
    /\ HasAdminAccess(u)
    /\ i \in PaymentIds
    /\ payments' = [payments EXCEPT ![i].status = status]
    /\ last' = [op |-> "admin_change_payment", code |-> 302, detail |-> "", user |-> u, req |-> <<>>]
    /\ UNCHANGED <<captain_profiles, users, providers, orders, now, subscriptions, inflight>>

----------------------------------------------------------------------------
(* Provider subscriptions.                                                 *)

SubscriptionIds == 1..Len(subscriptions)

\* ProviderSubscription.PLAN_CHOICES and STATUS_CHOICES
PLAN_CHOICES == {"MONTHLY", "YEARLY"}

SUBSCRIPTION_STATUS_CHOICES == {"PENDING", "ACTIVE", "EXPIRED", "CANCELLED"}

\* plan_type values a request can carry: a plan, or "" for a missing or
\* unknown one.
PlanInputs == PLAN_CHOICES \cup {""}

----------------------------------------------------------------------------
(* Prices. The handler computes in Python floats (IEEE 754 binary64). A      *)
(* natural number is a sequence of limbs of LimbBits bits, least            *)
(* significant first; a float is [m, e] and stands for the number m * 2^e,  *)
(* m having at most MantissaBits bits. Every operation computes the exact   *)
(* result and rounds it to the nearest float, ties to even.                 *)

\* The significand of a binary64 float.
MantissaBits == 53

\* The bits of a limb, and the numbers a limb takes.
LimbBits == 8

Base == 2^LimbBits

RECURSIVE Limbs(_)
\* The limbs of a natural number.
Limbs(n) == IF n = 0 THEN <<>> ELSE <<n % Base>> \o Limbs(n \div Base)

RECURSIVE LimbsValue(_)
\* The natural number of a sequence of limbs (for numbers below 2^31).
LimbsValue(b) == IF b = <<>> THEN 0 ELSE b[1] + Base * LimbsValue(Tail(b))

RECURSIVE TimesSmall(_, _, _)
\* b * k + carry for a natural number k of at most 10^5.
TimesSmall(b, k, carry) == IF b = <<>> THEN Limbs(carry) ELSE <<(b[1] * k + carry) % Base>> \o TimesSmall(Tail(b), k, (b[1] * k + carry) \div Base)

RECURSIVE Plus(_, _, _)
\* a + b + carry
Plus(a, b, carry) ==
    IF a = <<>> /\ b = <<>> THEN Limbs(carry)
    ELSE LET v == (IF a = <<>> THEN 0 ELSE a[1]) + (IF b = <<>> THEN 0 ELSE b[1]) + carry
         IN <<v % Base>> \o Plus(IF a = <<>> THEN a ELSE Tail(a), IF b = <<>> THEN b ELSE Tail(b), v \div Base)

RECURSIVE DividedBySmall(_, _)
\* The quotient q and the remainder r of b by a natural number k of at most
\* 10^5.
DividedBySmall(b, k) ==
    IF b = <<>> THEN [q |-> <<>>, r |-> 0]
    ELSE LET hi == DividedBySmall(Tail(b), k)
         IN [q |-> <<(Base * hi.r + b[1]) \div k>> \o hi.q, r |-> (Base * hi.r + b[1]) % k]

RECURSIVE Trim(_)
\* b without its leading zero limbs.
Trim(b) == IF b = <<>> \/ b[Len(b)] # 0 THEN b ELSE Trim(SubSeq(b, 1, Len(b) - 1))

\* The number of bits of b.
BitLength(b) ==
    LET t == Trim(b)
    IN IF t = <<>> THEN 0 ELSE LimbBits * (Len(t) - 1) + CHOOSE n \in 1..LimbBits : 2^(n - 1) <= t[Len(t)] /\ t[Len(t)] < 2^n

\* b * 2^n
ShiftLeft(b, n) == TimesSmall([i \in 1..(n \div LimbBits) |-> 0] \o b, 2^(n % LimbBits), 0)

\* b without its n lowest bits (q), and whether a bit that was dropped was
\* set (lost).
DropBits(b, n) ==
    LET cut == DividedBySmall(SubSeq(b, (n \div LimbBits) + 1, Len(b)), 2^(n % LimbBits))
    IN [q |-> Trim(cut.q), lost |-> cut.r # 0 \/ \E i \in 1..(n \div LimbBits) : i <= Len(b) /\ b[i] # 0]

IsOdd(b) == b # <<>> /\ b[1] % 2 = 1

\* Rounding that cuts the bits that do not fit (towards zero).
RoundTowardsZero(b, e, sticky) ==
    LET d == BitLength(b) - MantissaBits
    IN IF d <= 0 THEN [m |-> Trim(b), e |-> e] ELSE [m |-> DropBits(b, d).q, e |-> e + d]

\* The float nearest to b * 2^e (plus a little, when sticky), ties to even.
RoundHalfEven(b, e, sticky) ==
    LET d == BitLength(b) - MantissaBits
    IN
    IF d <= 0 THEN [m |-> Trim(b), e |-> e]
    ELSE LET cut == DropBits(b, d - 1)
             kept == DropBits(cut.q, 1).q
             up == IsOdd(cut.q) /\ (sticky \/ cut.lost \/ IsOdd(kept))
         IN [m |-> IF up THEN Plus(kept, <<>>, 1) ELSE kept, e |-> e + d]

\* The float of a decimal literal num/den (at least 2^-10), e.g.
\* 0.18 = 18/100, 199.00 = 199/1.
FloatLiteral(num, den) ==
    IF den = 1 THEN [m |-> Limbs(num), e |-> 0]
    ELSE LET cut == DividedBySmall(ShiftLeft(Limbs(num), 64), den)
         IN RoundHalfEven(Trim(cut.q), 0 - 64, cut.r # 0)

\* x * y for floats, x being an integer of at most 10^5.
FloatTimes(x, y) == RoundHalfEven(TimesSmall(y.m, LimbsValue(ShiftLeft(x.m, x.e)), 0), y.e, FALSE)

\* x + y for floats.
FloatPlus(x, y) ==
    LET e == IF x.e < y.e THEN x.e ELSE y.e
    IN RoundHalfEven(Plus(ShiftLeft(x.m, x.e - e), ShiftLeft(y.m, y.e - e), 0), e, FALSE)

\* int(x) for a float x >= 0: the integer part.
IntOf(x) == IF x.e >= 0 THEN LimbsValue(ShiftLeft(x.m, x.e)) ELSE LimbsValue(DropBits(x.m, 0 - x.e).q)

RECURSIVE Digits(_)
\* The number of decimal digits of a natural number (1 for 0).
Digits(n) == IF n < 10 THEN 1 ELSE 1 + Digits(n \div 10)

\* The value a DecimalField(max_digits=10, decimal_places=2) holds for a
\* float between 1 and 10^7, in hundredths: the float is converted exactly
\* and rounded to ten significant digits (ties to even), and the
\* NUMERIC(10, 2) column rounds that to two places (ties away from zero).
DecimalField(x) ==
    LET places == 10 - Digits(IntOf(x))
        scaled == TimesSmall(TimesSmall(x.m, 10^(places \div 2), 0), 10^(places - (places \div 2)), 0)
        cut == DropBits(scaled, (0 - x.e) - 1)
        whole == IF x.e >= 0 THEN ShiftLeft(scaled, x.e) ELSE DropBits(cut.q, 1).q
        up == x.e < 0 /\ IsOdd(cut.q) /\ (cut.lost \/ IsOdd(whole))
        tenDigits == IF up THEN Plus(whole, <<>>, 1) ELSE whole
        tenth == DividedBySmall(DividedBySmall(tenDigits, 10^(places - 3)).q, 10)
    IN LimbsValue(Trim(tenth.q)) + (IF tenth.r >= 5 THEN 1 ELSE 0)

\* The plan's base price: 199.00 or 1499.00.
PlanBase(plan_type) == IF plan_type = "MONTHLY" THEN 199 ELSE 1499

\* The plan's listing slots.
ListingSlots(plan_type) == IF plan_type = "MONTHLY" THEN 1 ELSE 3

\* amount, gst_amount = amount * 0.18 and total_amount = amount + gst_amount
\* for each plan, with the amount of the gateway order int(total_amount * 100)
\* and the amount the row holds, in hundredths of a rupee.
Prices ==
    [plan_type \in PLAN_CHOICES |->
        LET amount == FloatLiteral(PlanBase(plan_type), 1)
            gst_amount == FloatTimes(amount, FloatLiteral(18, 100))
            total_amount == FloatPlus(amount, gst_amount)
        IN [order |-> IntOf(FloatTimes(FloatLiteral(100, 1), total_amount)), stored |-> DecimalField(total_amount)]]

\* ProviderSubscription.objects.create(...) in create_subscription_payment.
NewSubscription(p, plan_type, order_id) == [provider |-> p, plan_type |-> plan_type, amount |-> Prices[plan_type].stored, listing_slots |-> ListingSlots(plan_type), status |-> "PENDING", gateway_order_id |-> order_id, gateway_payment_id |-> None, start_date |-> None, end_date |-> None]

----------------------------------------------------------------------------

\* pending_sub of a serializer that never finds a pending subscription.
PendingSubscriptionNeverFound(p) == None

\* The provider's newest PENDING subscription (pending_sub), or None.
PendingSubscriptionOf(p) == FirstPayment({i \in SubscriptionIds : subscriptions[i].provider = p /\ subscriptions[i].status = "PENDING"})

\* create_subscription_payment that does not look at verification_status.
SubscriptionRefusalNoVerifiedCheck(u, plan_type) ==
    LET p == ProviderProfile(u) IN
    IF p = None THEN [code |-> 404, detail |-> ""]
    ELSE IF plan_type \notin PLAN_CHOICES THEN [code |-> 400, detail |-> "Validation failed"]
    ELSE IF PendingSubscriptionOf(p) # None THEN [code |-> 400, detail |-> ToString(PendingSubscriptionOf(p))]
    ELSE [code |-> 0, detail |-> ""]

\* create_subscription_payment up to the gateway call: the response code and
\* detail of a refusal, or code 0 when the request goes on to the gateway.
\* The detail of the "pending exists" refusal is the subscription_id it
\* returns (an error detail, hence a string).
SubscriptionRefusal(u, plan_type) ==
    LET p == ProviderProfile(u) IN
    IF p = None THEN [code |-> 404, detail |-> ""]
    ELSE IF providers[p].verification_status # "VERIFIED" THEN [code |-> 400, detail |-> "not verified"]
    ELSE IF plan_type \notin PLAN_CHOICES THEN [code |-> 400, detail |-> "Validation failed"]
    ELSE IF PendingSubscriptionOf(p) # None THEN [code |-> 400, detail |-> ToString(PendingSubscriptionOf(p))]
    ELSE [code |-> 0, detail |-> ""]

\* create_subscription_payment writing its row before it calls the gateway.
CreateSubscriptionPaymentRowFirst(u, plan_type, gateway_ok) ==
    /\ Authenticated(u)
    /\ LET r == SubscriptionRefusal(u, plan_type) IN
       IF r.code # 0
       THEN /\ last' = [op |-> "create_subscription_payment", code |-> r.code, detail |-> r.detail, user |-> u, req |-> <<>>]
            /\ UNCHANGED <<subscriptions, orders>>
       ELSE /\ orders < MaxOrders
            /\ Len(subscriptions) < MaxSubscriptions
            /\ orders' = orders + 1
            /\ subscriptions' = Append(subscriptions, NewSubscription(ProviderProfile(u), plan_type, orders + 1))
            /\ last' = [op |-> "create_subscription_payment", code |-> IF gateway_ok THEN 201 ELSE 500, detail |-> "", user |-> u, req |-> IF gateway_ok THEN <<Prices[plan_type].order>> ELSE <<>>]
    /\ UNCHANGED <<captain_profiles, users, providers, payments, inflight, now>>

\* POST providers/subscription/create (a 201 is recorded with the amount of
\* the gateway order, in paise); gateway_ok is whether
\* razorpay_client.order.create returns.
CreateSubscriptionPayment(u, plan_type, gateway_ok) ==
    /\ Authenticated(u)
    /\ LET r == SubscriptionRefusal(u, plan_type) IN
       IF r.code # 0
       THEN /\ last' = [op |-> "create_subscription_payment", code |-> r.code, detail |-> r.detail, user |-> u, req |-> <<>>]
            /\ UNCHANGED <<subscriptions, orders>>
       ELSE IF ~gateway_ok
       THEN /\ last' = [op |-> "create_subscription_payment", code |-> 500, detail |-> "", user |-> u, req |-> <<>>]
            /\ UNCHANGED <<subscriptions, orders>>
       ELSE /\ orders < MaxOrders
            /\ Len(subscriptions) < MaxSubscriptions
            /\ orders' = orders + 1
            /\ subscriptions' = Append(subscriptions, NewSubscription(ProviderProfile(u), plan_type, orders + 1))
            /\ last' = [op |-> "create_subscription_payment", code |-> 201, detail |-> "", user |-> u, req |-> <<Prices[plan_type].order>>]
    /\ UNCHANGED <<captain_profiles, users, providers, payments, inflight, now>>

\* The lookup of subscription_payment_callback without status='PENDING'.
SubscriptionForAnyStatus(order_id) == FirstPayment({i \in SubscriptionIds : subscriptions[i].gateway_order_id = order_id})

\* The lookup of the callback that also finds an ACTIVE subscription.
PendingOrActiveSubscriptionFor(order_id) == FirstPayment({i \in SubscriptionIds : subscriptions[i].gateway_order_id = order_id /\ subscriptions[i].status \in {"PENDING", "ACTIVE"}})

\* ProviderSubscription.objects.filter(gateway_order_id=..., status='PENDING').first()
PendingSubscriptionFor(order_id) == FirstPayment({i \in SubscriptionIds : subscriptions[i].gateway_order_id = order_id /\ subscriptions[i].status = "PENDING"})

\* The page subscription_payment_callback renders.
SubscriptionCallbackPage(post, order_id, payment_id, signature) ==
    IF ~post THEN "payment_error.html"
    ELSE IF order_id = None \/ payment_id = None \/ signature = <<>> THEN "payment_error.html"
    ELSE IF ~SignatureMatches(order_id, payment_id, signature) THEN "payment_failure.html"
    ELSE IF PendingSubscriptionFor(order_id) = None THEN "payment_error.html"
    ELSE "subscription_success.html"


\* The calendar behind a DateTimeField: the clock counts days, day 1 being
\* 1 January of EpochYear; a date is <<year, month, day>>.
IsLeap(y) == (y % 4 = 0 /\ y % 100 # 0) \/ y % 400 = 0

\* calendar.monthrange(year, month)[1]
DaysInMonth(y, m) == IF m = 2 THEN (IF IsLeap(y) THEN 29 ELSE 28) ELSE IF m \in {4, 6, 9, 11} THEN 30 ELSE 31

RECURSIVE DateFrom(_, _, _)
\* The date n days (n >= 1) into the month m of year y, counting on.
DateFrom(y, m, n) == IF n <= DaysInMonth(y, m) THEN <<y, m, n>> ELSE IF m = 12 THEN DateFrom(y + 1, 1, n - DaysInMonth(y, m)) ELSE DateFrom(y, m + 1, n - DaysInMonth(y, m))

\* The date of a day of the clock.
DateOf(n) == DateFrom(EpochYear, 1, n)

RECURSIVE DaysBefore(_, _)
\* The days of the clock before the first of month m of year y.
DaysBefore(y, m) == IF y = EpochYear /\ m = 1 THEN 0 ELSE IF m = 1 THEN DaysBefore(y - 1, 12) + DaysInMonth(y - 1, 12) ELSE DaysBefore(y, m - 1) + DaysInMonth(y, m - 1)

\* The day of the clock of a date.
DayNumber(date) == DaysBefore(date[1], date[2]) + date[3]

\* A delta of as many days as the plan has months of thirty.
FixedDaysDelta(date, years, months) == DateOf(DayNumber(date) + 365 * years + 30 * months)

\* dt + relativedelta(years=years, months=months) for months in 0..12: the
\* year and month are moved, and the day is cut to the length of the month
\* reached.
RelativeDelta(date, years, months) ==
    LET moved == date[2] + months
        year == IF moved > 12 THEN date[1] + years + 1 ELSE date[1] + years
        month == IF moved > 12 THEN moved - 12 ELSE moved
    IN <<year, month, IF date[3] <= DaysInMonth(year, month) THEN date[3] ELSE DaysInMonth(year, month)>>

\* The end date of a plan that starts on day `start`: relativedelta(months=1)
\* for MONTHLY, relativedelta(years=1) otherwise.
EndDate(start, plan_type) == DayNumber(IF plan_type = "MONTHLY" THEN RelativeDelta(DateOf(start), 0, 1) ELSE RelativeDelta(DateOf(start), 1, 0))

\* The assignments of subscription_payment_callback before subscription.save().
ActivatedSubscription(row, payment_id) == [row EXCEPT !.status = "ACTIVE", !.gateway_payment_id = payment_id, !.start_date = now, !.end_date = EndDate(now, row.plan_type)]

\* providers/subscription/callback
SubscriptionPaymentCallback(post, order_id, payment_id, signature) ==
    /\ IF SubscriptionCallbackPage(post, order_id, payment_id, signature) = "subscription_success.html"
       THEN subscriptions' = [subscriptions EXCEPT ![PendingSubscriptionFor(order_id)] = ActivatedSubscription(@, payment_id)]
       ELSE UNCHANGED subscriptions
    /\ last' = [op |-> "subscription_payment_callback", code |-> 200, detail |-> SubscriptionCallbackPage(post, order_id, payment_id, signature), user |-> None, req |-> <<order_id, payment_id, signature>>]
    /\ UNCHANGED <<captain_profiles, users, providers, payments, orders, inflight, now>>

\* get_active_subscription that does not compare end_date with the clock.
ActiveSubscriptionIgnoringEndDate(p) == FirstPayment({i \in SubscriptionIds : subscriptions[i].provider = p /\ subscriptions[i].status = "ACTIVE"})

\* filter(provider=provider, status='ACTIVE', end_date__gte=timezone.now())
\* .order_by('-created_at').first(); a NULL end_date matches no comparison.
ActiveSubscriptionOf(p) == FirstPayment({i \in SubscriptionIds : subscriptions[i].provider = p /\ subscriptions[i].status = "ACTIVE" /\ subscriptions[i].end_date # None /\ subscriptions[i].end_date >= now})

\* GET providers/subscription/active; a 200 carries the subscription's id.
GetActiveSubscription(u) ==
    /\ Authenticated(u)
    /\ LET p == ProviderProfile(u) IN
       IF p = None
       THEN last' = [op |-> "get_active_subscription", code |-> 404, detail |-> "Provider profile not found", user |-> u, req |-> <<>>]
       ELSE IF ActiveSubscriptionOf(p) # None
       THEN last' = [op |-> "get_active_subscription", code |-> 200, detail |-> ToString(ActiveSubscriptionOf(p)), user |-> u, req |-> <<>>]
       ELSE last' = [op |-> "get_active_subscription", code |-> 404, detail |-> "No active subscription found", user |-> u, req |-> <<>>]
    /\ UNCHANGED <<captain_profiles, users, providers, payments, subscriptions, orders, inflight, now>>

\* The change form of ProviderSubscriptionAdmin: status is an editable field.
AdminChangeSubscription(u, i, status) ==
    /\ HasAdminAccess(u)
    /\ i \in SubscriptionIds
    /\ subscriptions' = [subscriptions EXCEPT ![i].status = status]
    /\ last' = [op |-> "admin_change_subscription", code |-> 302, detail |-> "", user |-> u, req |-> <<>>]
    /\ UNCHANGED <<captain_profiles, users, providers, payments, orders, inflight, now>>

----------------------------------------------------------------------------
(* Login.                                                                  *)

\* Identifiers (phone, email) and passwords a login request can carry: None
\* when the key is absent or blank, the identifier account k registered with
\* (k itself), or one that no account has (MaxUsers + 1).
Identifiers == 0..(MaxUsers + 1)

Passwords == 0..(MaxUsers + 1)

\* User.check_password: the account has a usable password and it is this one.
CheckPassword(a, password) == users[a].password /\ password = a

\* PhoneBackend.authenticate: the account found by phone, else by email, if
\* its password checks; None otherwise.
AuthenticateUser(phone, email, password) ==
    LET user == IF phone # None /\ AccountByPhone(phone) # None THEN AccountByPhone(phone)
                ELSE IF email # None THEN AccountByEmail(email)
                ELSE None
    IN IF password = None THEN None
       ELSE IF user # None /\ CheckPassword(user, password) THEN user
       ELSE None

\* login without the check of admin_verified for captains.
LoginResultNoCaptainCheck(phone, email, password) ==
    LET user == AuthenticateUser(phone, email, password) IN
    IF password = None \/ (phone = None /\ email = None) THEN [code |-> 400, detail |-> ""]
    ELSE IF user = None THEN [code |-> 401, detail |-> ""]
    ELSE IF ~users[user].is_active THEN [code |-> 403, detail |-> "requires_payment"]
    ELSE [code |-> 200, detail |-> ""]

\* login: the response code and, for a 403, the flag that says why.
LoginResult(phone, email, password) ==
    LET user == AuthenticateUser(phone, email, password) IN
    IF password = None \/ (phone = None /\ email = None) THEN [code |-> 400, detail |-> ""]
    ELSE IF user = None THEN [code |-> 401, detail |-> ""]
    ELSE IF ~users[user].is_active THEN [code |-> 403, detail |-> "requires_payment"]
    ELSE IF users[user].is_captain /\ ~users[user].admin_verified THEN [code |-> 403, detail |-> "requires_verification"]
    ELSE [code |-> 200, detail |-> ""]

\* POST auth/login
Login(phone, email, password) ==
    /\ last' = [op |-> "login", code |-> LoginResult(phone, email, password).code, detail |-> LoginResult(phone, email, password).detail, user |-> None, req |-> <<phone, email, password>>]
    /\ UNCHANGED <<captain_profiles, users, providers, payments, subscriptions, orders, inflight, now>>

\* The change form of the providers app's UserAdmin: admin_verified is an
\* editable field of its 'Captain Details' fieldset.
AdminChangeCaptain(u, target, admin_verified) ==
    /\ HasAdminAccess(u)
    /\ UserExists(target)
    /\ users' = [users EXCEPT ![target].admin_verified = admin_verified]
    /\ last' = [op |-> "admin_change_user", code |-> 302, detail |-> "", user |-> u, req |-> <<>>]
    /\ UNCHANGED <<captain_profiles, providers, payments, subscriptions, orders, inflight, now>>

Init ==
    /\ users = <<Superuser>>
    /\ providers = <<>>
    /\ payments = <<>>
    /\ subscriptions = <<>>
    /\ orders = 0
    /\ inflight = {}
    /\ captain_profiles = <<>>
    /\ now = 1
    /\ last = [op |-> "init", code |-> 0, detail |-> "", user |-> None, req |-> <<>>]

\* The clock behind timezone.now().
Tick ==
    /\ now <= MaxTime
    /\ now' = now + 1
    /\ last' = [op |-> "tick", code |-> 0, detail |-> "", user |-> None, req |-> <<>>]
    /\ UNCHANGED <<captain_profiles, users, providers, payments, orders, subscriptions, inflight>>

\* register without validate_phone and validate_email.
RegisterRefusalNoTakenCheck(phone, email) == IF phone = None /\ email = None THEN 400 ELSE 0

\* UserRegistrationSerializer.is_valid(): 400 when the phone or the email is
\* taken or when both are blank (None), 0 when the data is valid.
RegisterRefusal(phone, email) ==
    IF phone # None /\ AccountByPhone(phone) # None THEN 400
    ELSE IF email # None /\ AccountByEmail(email) # None THEN 400
    ELSE IF phone = None /\ email = None THEN 400
    ELSE 0

\* POST auth/register. With is_provider the account is created and the
\* import of ProviderProfile, which providers.models does not define, ends
\* the request with a server error.
Register(phone, email, is_captain, is_provider, password) ==
    /\ IF RegisterRefusal(phone, email) # 0
       THEN /\ UNCHANGED users
            /\ last' = [op |-> "register", code |-> 400, detail |-> "", user |-> None, req |-> <<phone, email>>]
       ELSE /\ Len(users) < MaxUsers
            /\ users' = Append(users, NewUser(phone, email, is_captain, password))
            /\ last' = [op |-> "register", code |-> IF is_provider THEN 500 ELSE 201, detail |-> "", user |-> None, req |-> <<phone, email>>]
    /\ UNCHANGED <<captain_profiles, providers, payments, orders, now, subscriptions, inflight>>

\* A registration with a phone and an email nobody has: those of the row it
\* creates.
RegisterNew(is_captain, password) == Register(Len(users) + 1, Len(users) + 1, is_captain, FALSE, password)

\* The provider workflow: registration, profile save, submit, verify/reject,
\* and the provider change form (which leaves verified_by as it is).
Next ==
    \/ Tick
    \/ \E c \in BOOLEAN : RegisterNew(c, TRUE)
    \/ \E u \in UserIds, data \in ProfileRequests : CreateProviderProfile(u, data)
    \/ \E u \in UserIds, data \in ProfileRequests : PostProviderProfile(u, data)
    \/ \E u \in UserIds, decl \in SUBSET Declarations : SubmitProviderApplication(u, decl)
    \/ \E u \in UserIds, p \in 0..MaxProviders, c \in 0..MaxUsers, image \in BOOLEAN : VerifyProviderService(u, p, c, image)
    \/ \E u \in UserIds, q \in SUBSET ProviderIds : AdminVerifyProviders(u, q)
    \/ \E u \in UserIds, q \in SUBSET ProviderIds : AdminRejectProviders(u, q)
    \/ \E u \in UserIds, p \in ProviderIds, st \in VERIFICATION_STATUS_CHOICES, r \in Reasons : AdminChangeProvider(u, p, st, providers[p].verified_by, r)

Spec == Init /\ [][Next]_vars

\* Registration payment: registration, order creation, the gateway callback,
\* the user change form limited to the active flag and the payment change
\* form limited to the status.
NextPay ==
    \/ \E c \in BOOLEAN : RegisterNew(c, TRUE)
    \/ \E u \in UserIds, t \in UserIds, a \in BOOLEAN : UserExists(t) /\ AdminChangeUser(u, t, a, users[t].is_staff)
    \/ \E user_id \in 0..(MaxUsers + 1), ok \in BOOLEAN : CreatePaymentLink(user_id, ok)
    \/ \E post \in BOOLEAN, o \in 0..MaxOrders, p \in 0..MaxGatewayPayments, sig \in Signatures : PaymentCallback(post, o, p, sig)
    \/ \E u \in UserIds, i \in PaymentIds, st \in PAYMENT_STATUS_CHOICES : AdminChangePayment(u, i, st)

SpecPay == Init /\ [][NextPay]_vars

\* Login: registration with or without a password, the user change forms
\* limited to the active flag and to admin_verified, order creation, the
\* gateway callback as the gateway sends it, and login.
NextLogin ==
    \/ \E c \in BOOLEAN, pw \in BOOLEAN : RegisterNew(c, pw)
    \/ \E u \in UserIds, t \in UserIds, a \in BOOLEAN : UserExists(t) /\ AdminChangeUser(u, t, a, users[t].is_staff)
    \/ \E u \in UserIds, t \in UserIds, v \in BOOLEAN : AdminChangeCaptain(u, t, v)
    \/ \E user_id \in UserIds : CreatePaymentLink(user_id, TRUE)
    \/ \E o \in OrderIds, p \in GatewayPaymentIds : PaymentCallback(TRUE, o, p, HmacSha256(KeySecret, SignedText(o, p)))
    \/ \E phone \in Identifiers, email \in Identifiers, pw \in Passwords : Login(phone, email, pw)

SpecLogin == Init /\ [][NextLogin]_vars

\* A profile request with every field and every list filled in.
FullProfile == [valid |-> TRUE, set |-> TrackedFields, clear |-> {}, service_category |-> {Categories}, service_type |-> {Types}, service_areas |-> {Areas}]

\* Subscriptions: registration, a complete profile, the provider change
\* form limited to the status, order creation, the gateway callback (as a
\* POST request), the subscription change form limited to the status, and
\* the clock.
NextSub ==
    \/ Tick
    \/ RegisterNew(FALSE, TRUE)
    \/ \E u \in UserIds : CreateProviderProfile(u, FullProfile)
    \/ \E u \in UserIds, p \in ProviderIds, st \in VERIFICATION_STATUS_CHOICES : AdminChangeProvider(u, p, st, providers[p].verified_by, providers[p].rejection_reason)
    \/ \E u \in UserIds, plan \in PlanInputs, ok \in BOOLEAN : CreateSubscriptionPayment(u, plan, ok)
    \/ \E o \in OrderIds, p \in GatewayPaymentIds, sig \in Signatures : SubscriptionPaymentCallback(TRUE, o, p, sig)
    \/ \E u \in UserIds, i \in SubscriptionIds, st \in SUBSCRIPTION_STATUS_CHOICES : AdminChangeSubscription(u, i, st)

SpecSub == Init /\ [][NextSub]_vars

\* The gateway: registration, a complete profile, the provider change form
\* limited to the status, both order creations and both callbacks.
NextGateway ==
    \/ RegisterNew(FALSE, TRUE)
    \/ \E u \in UserIds : CreateProviderProfile(u, FullProfile)
    \/ \E u \in UserIds, p \in ProviderIds, st \in VERIFICATION_STATUS_CHOICES : AdminChangeProvider(u, p, st, providers[p].verified_by, providers[p].rejection_reason)
    \/ \E u \in UserIds, plan \in PLAN_CHOICES, ok \in BOOLEAN : CreateSubscriptionPayment(u, plan, ok)
    \/ \E post \in BOOLEAN, o \in OrderIds, p \in GatewayPaymentIds, sig \in Signatures : SubscriptionPaymentCallback(post, o, p, sig)
    \/ \E user_id \in UserIds, ok \in BOOLEAN : CreatePaymentLink(user_id, ok)
    \/ \E post \in BOOLEAN, o \in OrderIds, p \in GatewayPaymentIds, sig \in Signatures : PaymentCallback(post, o, p, sig)

SpecGateway == Init /\ [][NextGateway]_vars

----------------------------------------------------------------------------
(* Concurrent requests. The handlers run in separate workers with no       *)
(* transaction, lock or unique constraint: a handler's queries and its     *)
(* write are separate database statements, and statements of other         *)
(* requests may run between them. A request that has passed its checks     *)
(* waits in `inflight` with what it read until its write.                  *)

\* The lowest free slot for a request in flight.
FreeSlot == CHOOSE k \in 1..MaxInflight : k \notin {r.id : r \in inflight} /\ \A j \in 1..(k - 1) : j \in {r.id : r \in inflight}

\* Model.save(): every column of the instance in memory is written; the
\* many-to-many tables are not part of the statement.
SavedRow(current, instance) == [instance EXCEPT !.service_categories = current.service_categories, !.service_types = current.service_types, !.service_areas = current.service_areas]

\* verify_provider_service up to its last check: ServiceProvider.objects.get
\* and the two status tests.
BeginVerifyProviderService(u, profile_id, captain_code, image) ==
    /\ Authenticated(u)
    /\ Cardinality(inflight) < MaxInflight
    /\ LET r == VerifyResult(u, profile_id, captain_code, image) IN
       IF r.changed
       THEN /\ inflight' = inflight \cup {[id |-> FreeSlot, op |-> "verify_provider_service", user |-> u, profile |-> profile_id, row |-> providers[profile_id]]}
            /\ last' = [op |-> "verify_provider_service", code |-> 0, detail |-> "", user |-> u, req |-> <<profile_id>>]
       ELSE /\ UNCHANGED inflight
            /\ last' = [op |-> "verify_provider_service", code |-> r.code, detail |-> "", user |-> u, req |-> <<profile_id>>]
    /\ UNCHANGED <<captain_profiles, users, providers, payments, subscriptions, orders, now>>

\* verify_provider_service from its assignments on: provider.save() of the
\* instance it read.
FinishVerifyProviderService(r) ==
    /\ r \in inflight
    /\ r.op = "verify_provider_service"
    /\ providers' = [providers EXCEPT ![r.profile] = SavedRow(@, VerifiedRow(r.row, r.user))]
    /\ inflight' = inflight \ {r}
    /\ last' = [op |-> "verify_provider_service", code |-> 200, detail |-> "", user |-> r.user, req |-> <<r.profile>>]
    /\ UNCHANGED <<captain_profiles, users, payments, subscriptions, orders, now>>

\* POST providers/profile/me on an existing profile, up to
\* serializer.is_valid(): request.user.provider_profile is read.
BeginPostProviderProfile(u, data) ==
    /\ Authenticated(u)
    /\ ProviderProfile(u) # None
    /\ Cardinality(inflight) < MaxInflight
    /\ IF UpdateIsValid(data)
       THEN /\ inflight' = inflight \cup {[id |-> FreeSlot, op |-> "get_provider_profile", user |-> u, data |-> data, row |-> providers[ProviderProfile(u)]]}
            /\ last' = [op |-> "get_provider_profile", code |-> 0, detail |-> "", user |-> u, req |-> <<>>]
       ELSE /\ UNCHANGED inflight
            /\ last' = [op |-> "get_provider_profile", code |-> 400, detail |-> "", user |-> u, req |-> <<>>]
    /\ UNCHANGED <<captain_profiles, users, providers, payments, subscriptions, orders, now>>

\* ServiceProviderUpdateSerializer.update: the many-to-many lists are set in
\* their tables, then instance.save() writes the columns of the instance
\* that was read.
FinishPostProviderProfile(r) ==
    /\ r \in inflight
    /\ r.op = "get_provider_profile"
    /\ providers' = [providers EXCEPT ![ProviderProfile(r.user)] = SavedRow(UpdateRow(@, r.data), UpdateRow(r.row, r.data))]
    /\ inflight' = inflight \ {r}
    /\ last' = [op |-> "get_provider_profile", code |-> 200, detail |-> "", user |-> r.user, req |-> <<>>]
    /\ UNCHANGED <<captain_profiles, users, payments, subscriptions, orders, now>>

\* create_subscription_payment up to serializer.is_valid(): the profile
\* and the PENDING subscription are looked up.
BeginCreateSubscriptionPayment(u, plan_type) ==
    /\ Authenticated(u)
    /\ Cardinality(inflight) < MaxInflight
    /\ LET r == SubscriptionRefusal(u, plan_type) IN
       IF r.code # 0
       THEN /\ UNCHANGED inflight
            /\ last' = [op |-> "create_subscription_payment", code |-> r.code, detail |-> r.detail, user |-> u, req |-> <<>>]
       ELSE /\ inflight' = inflight \cup {[id |-> FreeSlot, op |-> "create_subscription_payment", user |-> u, profile |-> ProviderProfile(u), plan_type |-> plan_type]}
            /\ last' = [op |-> "create_subscription_payment", code |-> 0, detail |-> "", user |-> u, req |-> <<>>]
    /\ UNCHANGED <<captain_profiles, users, providers, payments, subscriptions, orders, now>>

\* create_subscription_payment from razorpay_client.order.create on.
FinishCreateSubscriptionPayment(r, gateway_ok) ==
    /\ r \in inflight
    /\ r.op = "create_subscription_payment"
    /\ inflight' = inflight \ {r}
    /\ IF ~gateway_ok
       THEN /\ last' = [op |-> "create_subscription_payment", code |-> 500, detail |-> "", user |-> r.user, req |-> <<>>]
            /\ UNCHANGED <<subscriptions, orders>>
       ELSE /\ orders < MaxOrders
            /\ Len(subscriptions) < MaxSubscriptions
            /\ orders' = orders + 1
            /\ subscriptions' = Append(subscriptions, NewSubscription(r.profile, r.plan_type, orders + 1))
            /\ last' = [op |-> "create_subscription_payment", code |-> 201, detail |-> "", user |-> r.user, req |-> <<Prices[r.plan_type].order>>]
    /\ UNCHANGED <<captain_profiles, users, providers, payments, now>>

\* create_payment_link up to the lookup of existing_payment.
BeginCreatePaymentLink(user_id) ==
    LET existing == FirstPayment({i \in PaymentIds : payments[i].user = user_id /\ payments[i].status = "PENDING"})
        reply(code) == /\ last' = [op |-> "create_payment_link", code |-> code, detail |-> IF code = 200 THEN ToString(existing) ELSE "", user |-> None, req |-> <<>>]
                       /\ UNCHANGED inflight
    IN
    /\ Cardinality(inflight) < MaxInflight
    /\ IF user_id = None THEN reply(400)
       ELSE IF ~UserExists(user_id) THEN reply(404)
       ELSE IF \E i \in PaymentIds : payments[i].user = user_id /\ payments[i].status = "SUCCESS" THEN reply(400)
       ELSE IF existing # None /\ payments[existing].gateway_ref # None THEN reply(200)
       ELSE /\ inflight' = inflight \cup {[id |-> FreeSlot, op |-> "create_payment_link", user |-> user_id, existing |-> existing, found |-> IF existing = None THEN <<>> ELSE <<payments[existing]>>]}
            /\ last' = [op |-> "create_payment_link", code |-> 0, detail |-> "", user |-> None, req |-> <<>>]
    /\ UNCHANGED <<captain_profiles, users, providers, payments, subscriptions, orders, now>>

\* create_payment_link from razorpay_client.order.create on:
\* existing_payment.save() of the row that was read, or objects.create.
FinishCreatePaymentLink(r, gateway_ok) ==
    /\ r \in inflight
    /\ r.op = "create_payment_link"
    /\ inflight' = inflight \ {r}
    /\ IF ~gateway_ok
       THEN /\ last' = [op |-> "create_payment_link", code |-> 500, detail |-> "", user |-> None, req |-> <<>>]
            /\ UNCHANGED <<payments, orders>>
       ELSE /\ orders < MaxOrders
            /\ orders' = orders + 1
            /\ IF r.existing # None
               THEN payments' = [payments EXCEPT ![r.existing] = [r.found[1] EXCEPT !.gateway_ref = orders + 1]]
               ELSE /\ Len(payments) < MaxPayments
                    /\ payments' = Append(payments, NewPayment(r.user, orders + 1))
            /\ last' = [op |-> "create_payment_link", code |-> 201, detail |-> "", user |-> None, req |-> <<>>]
    /\ UNCHANGED <<captain_profiles, users, providers, subscriptions, now>>

\* The profile edits of the concurrent runs: every list, or one category.
RaceEdits == {FullProfile, [FullProfile EXCEPT !.service_category = {{1}}, !.service_type = {}, !.service_areas = {}]}

\* Concurrent status transitions: registration, a complete profile, the
\* provider change form limited to the status, and the two halves of
\* verification and of profile edit, in any interleaving.
NextRace ==
    \/ \E c \in BOOLEAN : RegisterNew(c, TRUE)
    \/ \E u \in UserIds : CreateProviderProfile(u, FullProfile)
    \/ \E u \in UserIds, p \in ProviderIds, st \in VERIFICATION_STATUS_CHOICES : AdminChangeProvider(u, p, st, providers[p].verified_by, providers[p].rejection_reason)
    \/ \E u \in UserIds, p \in ProviderIds : BeginVerifyProviderService(u, p, CaptainCode(u), TRUE)
    \/ \E r \in inflight : FinishVerifyProviderService(r)
    \/ \E u \in UserIds, data \in RaceEdits : BeginPostProviderProfile(u, data)
    \/ \E r \in inflight : FinishPostProviderProfile(r)

SpecRace == Init /\ [][NextRace]_vars

\* Concurrent order creations: registration, a complete profile, the
\* provider change form limited to the status, and the two halves of both
\* order creations, in any interleaving.
NextOrderRace ==
    \/ RegisterNew(FALSE, TRUE)
    \/ \E u \in UserIds : CreateProviderProfile(u, FullProfile)
    \/ \E u \in UserIds, p \in ProviderIds, st \in VERIFICATION_STATUS_CHOICES : AdminChangeProvider(u, p, st, providers[p].verified_by, providers[p].rejection_reason)
    \/ \E u \in UserIds, plan \in PLAN_CHOICES : BeginCreateSubscriptionPayment(u, plan)
    \/ \E r \in inflight, ok \in BOOLEAN : FinishCreateSubscriptionPayment(r, ok)
    \/ \E user_id \in UserIds : BeginCreatePaymentLink(user_id)
    \/ \E r \in inflight, ok \in BOOLEAN : FinishCreatePaymentLink(r, ok)

SpecOrderRace == Init /\ [][NextOrderRace]_vars

\* A state in which a VERIFIED provider has asked for the plan and the order
\* of the gateway is open: the administrator's profile, verified, with one
\* PENDING subscription, on a day of the first two years of the clock.
InitCalendar ==
    /\ users = <<Superuser>>
    /\ providers = <<[CreateRow(1, FullProfile) EXCEPT !.verification_status = "VERIFIED"]>>
    /\ payments = <<>>
    /\ \E plan_type \in PLAN_CHOICES : subscriptions = <<NewSubscription(1, plan_type, 1)>>
    /\ orders = 1
    /\ inflight = {}
    /\ captain_profiles = <<>>
    /\ now \in 1..MaxStartDay
    /\ last = [op |-> "create_subscription_payment", code |-> 201, detail |-> "", user |-> 1, req |-> <<>>]

\* The calendar: the gateway confirms the order on the day it was opened.
NextCalendar ==
    \E p \in GatewayPaymentIds : SubscriptionPaymentCallback(TRUE, 1, p, HmacSha256(KeySecret, SignedText(1, p)))

SpecCalendar == InitCalendar /\ [][NextCalendar]_vars

\* Time passing between requests, ElapseDays at a time.
Elapse ==
    /\ now + ElapseDays <= MaxClock
    /\ now' = now + ElapseDays
    /\ last' = [op |-> "tick", code |-> 0, detail |-> "", user |-> None, req |-> <<>>]
    /\ UNCHANGED <<captain_profiles, users, providers, payments, orders, subscriptions, inflight>>

\* Subscriptions over time: registration, a complete profile, the provider
\* change form limited to the status, order creation, the confirmed
\* callback, the subscription change form limited to the status, the read
\* of the active subscription, and days passing.
NextActive ==
    \/ Elapse
    \/ RegisterNew(FALSE, TRUE)
    \/ \E u \in UserIds : CreateProviderProfile(u, FullProfile)
    \/ \E u \in UserIds, p \in ProviderIds, st \in VERIFICATION_STATUS_CHOICES : AdminChangeProvider(u, p, st, providers[p].verified_by, providers[p].rejection_reason)
    \/ \E u \in UserIds, plan \in PLAN_CHOICES : CreateSubscriptionPayment(u, plan, TRUE)
    \/ \E o \in OrderIds, p \in GatewayPaymentIds : SubscriptionPaymentCallback(TRUE, o, p, HmacSha256(KeySecret, SignedText(o, p)))
    \/ \E u \in UserIds, i \in SubscriptionIds, st \in SUBSCRIPTION_STATUS_CHOICES : AdminChangeSubscription(u, i, st)
    \/ \E u \in UserIds : GetActiveSubscription(u)

SpecActive == Init /\ [][NextActive]_vars

\* An empty database: no account has been created yet.
InitRegister ==
    /\ users = <<>>
    /\ providers = <<>>
    /\ payments = <<>>
    /\ subscriptions = <<>>
    /\ orders = 0
    /\ inflight = {}
    /\ captain_profiles = <<>>
    /\ now = 1
    /\ last = [op |-> "init", code |-> 0, detail |-> "", user |-> None, req |-> <<>>]

\* The phones and the emails of registration requests; None is a blank or
\* absent field.
RegisterInputs == 0..MaxUsers

\* Registration: every request, and login by phone or by email.
NextRegister ==
    \/ \E phone \in RegisterInputs, email \in RegisterInputs, c \in BOOLEAN, prov \in BOOLEAN, pw \in BOOLEAN : Register(phone, email, c, prov, pw)
    \/ \E phone \in RegisterInputs, email \in RegisterInputs, pw \in Passwords : Login(phone, email, pw)

SpecRegister == InitRegister /\ [][NextRegister]_vars

----------------------------------------------------------------------------
(* Claims. A step of a handler is a step whose last'.op is the handler.    *)

ProfileViews == {"create_provider_profile", "get_provider_profile"}

\* The handlers the workflow exposes to providers, captains and admins (the
\* admin change forms, registration and the clock are not among them).
WorkflowOps == ProfileViews \cup {"submit_provider_application", "verify_provider_service", "verify_providers", "reject_providers"}

\* The step is a submit by a user who has an application.
SubmitStep == last'.op = "submit_provider_application" /\ ProviderProfile(last'.user) # None

\* The step is an edit: a profile view called by a user who has an application.
EditStep == last'.op \in ProfileViews /\ ProviderProfile(last'.user) # None

\* C1: a submit step changes the caller's application only on success (200);
\* a success starts from DRAFT or REJECTED and leaves PENDING_VERIFICATION,
\* submitted_at = now and an empty rejection_reason; a submit on an
\* application in PENDING_VERIFICATION or VERIFIED answers 400 and changes no
\* provider row.
C1_SubmitGuard ==
    [][SubmitStep =>
        LET p == ProviderProfile(last'.user) IN
        /\ providers' # providers => last'.code = 200
        /\ last'.code = 200 =>
            /\ providers[p].verification_status \in {"DRAFT", "REJECTED"}
            /\ providers'[p].verification_status = "PENDING_VERIFICATION"
            /\ providers'[p].submitted_at = now
            /\ providers'[p].rejection_reason = ""
        /\ providers[p].verification_status \in {"PENDING_VERIFICATION", "VERIFIED"} =>
            /\ last'.code = 400
            /\ providers' = providers]_vars

\* C1 witness: a submit with every declaration on an application that is
\* already verified was answered 400 (a DRAFT would have been answered 500).
C1_Witness ==
    /\ last.op = "submit_provider_application"
    /\ last.code = 400
    /\ ProviderProfile(last.user) # None
    /\ providers[ProviderProfile(last.user)].verification_status = "VERIFIED"
    /\ providers[ProviderProfile(last.user)].submitted_at = None

\* C2 (as claimed): an edit of an application in PENDING_VERIFICATION or
\* VERIFIED is refused and changes no provider row.
C2_EditRefusedAfterSubmission ==
    [][(EditStep /\ providers[ProviderProfile(last'.user)].verification_status \in {"PENDING_VERIFICATION", "VERIFIED"}) =>
        /\ last'.code # 200
        /\ providers' = providers]_vars

\* C3 (as claimed): no workflow handler takes an application out of VERIFIED.
C3_VerifiedIsTerminal ==
    [][\A p \in ProviderIds :
        (providers[p].verification_status = "VERIFIED" /\ last'.op \in WorkflowOps) =>
            providers'[p].verification_status = "VERIFIED"]_vars

\* C4: a verify step (API view or admin action) changes a row only if the row
\* was in PENDING_VERIFICATION, and leaves it VERIFIED with verified_by = the
\* caller and verification_date = now, all other columns as they were; an
\* API verify by a captain naming an application in DRAFT, REJECTED or
\* VERIFIED answers 400 and changes no provider row; an API verify that
\* answers 200 has verified the application it names.
C4_VerifyOnlyPending ==
    [][/\ last'.op \in {"verify_provider_service", "verify_providers"} =>
            \A p \in ProviderIds : providers'[p] # providers[p] =>
                /\ providers[p].verification_status = "PENDING_VERIFICATION"
                /\ providers'[p] = [providers[p] EXCEPT !.verification_status = "VERIFIED", !.verified_by = last'.user, !.verification_date = now]
       /\ (last'.op = "verify_provider_service" /\ last'.req[1] \in ProviderIds) =>
            LET p == last'.req[1] IN
            /\ (users[last'.user].is_captain /\ providers[p].verification_status # "PENDING_VERIFICATION") =>
                (last'.code = 400 /\ providers' = providers)
            /\ last'.code = 200 =>
                (providers[p].verification_status = "PENDING_VERIFICATION" /\ providers'[p].verification_status = "VERIFIED")]_vars

\* C4 witness: the API verify answered 200 and the application it names is
\* VERIFIED, stamped with the calling captain and the current time.
C4_Witness ==
    /\ last.op = "verify_provider_service"
    /\ last.code = 200
    /\ users[last.user].is_captain
    /\ providers[last.req[1]].verification_status = "VERIFIED"
    /\ providers[last.req[1]].verified_by = last.user
    /\ providers[last.req[1]].verification_date = now

\* C5 (as claimed): whenever a verify or reject handler moves an application
\* to VERIFIED or REJECTED, the caller, whom it records in verified_by, is a
\* captain.
C5_OnlyCaptainsDecide ==
    [][\A p \in ProviderIds :
        (/\ last'.op \in {"verify_provider_service", "verify_providers", "reject_providers"}
         /\ providers'[p].verification_status \in {"VERIFIED", "REJECTED"}
         /\ providers'[p].verification_status # providers[p].verification_status) =>
            /\ users[last'.user].is_captain
            /\ providers'[p].verified_by # None
            /\ users[providers'[p].verified_by].is_captain]_vars

\* C6: an edit that succeeds on an application in DRAFT or REJECTED leaves it
\* in DRAFT with rejection_reason '' and verified_by None.
C6_EditResetsToDraft ==
    [][(EditStep /\ last'.code = 200 /\ providers[ProviderProfile(last'.user)].verification_status \in {"DRAFT", "REJECTED"}) =>
        LET p == ProviderProfile(last'.user) IN
        /\ providers'[p].verification_status = "DRAFT"
        /\ providers'[p].rejection_reason = ""
        /\ providers'[p].verified_by = None]_vars

\* C6 witness: an edit succeeded on an application that had been decided on
\* before (its verification_date is stamped); it is a DRAFT again, without
\* reason and verifier.
C6_Witness ==
    /\ last.op \in ProfileViews
    /\ last.code = 200
    /\ ProviderProfile(last.user) # None
    /\ providers[ProviderProfile(last.user)].verification_date # None
    /\ providers[ProviderProfile(last.user)].verification_status = "DRAFT"
    /\ providers[ProviderProfile(last.user)].rejection_reason = ""
    /\ providers[ProviderProfile(last.user)].verified_by = None

\* Every required column of the row is populated.
RequiredColumnsPopulated(row) == TrackedFields \subseteq row.filled

\* C7 (as claimed): a submit with all declarations accepted succeeds exactly
\* when the application is in DRAFT or REJECTED, its required columns are
\* populated and it has at least one category, one type and one service area.
C7_SubmitSucceedsIffComplete ==
    [][(SubmitStep /\ SubmitProviderApplication(last'.user, Declarations)) =>
        LET row == providers[ProviderProfile(last'.user)] IN
        (last'.code = 200) <=>
            /\ row.verification_status \in {"DRAFT", "REJECTED"}
            /\ RequiredColumnsPopulated(row)
            /\ row.service_categories # {}
            /\ row.service_types # {}
            /\ row.service_areas # {}]_vars

\* C8 (as claimed): every service type linked to an application belongs to a
\* category linked to the same application.
C8_TypesBelongToCategories ==
    \A p \in ProviderIds : \A t \in providers[p].service_types : TypeCategory(t) \in providers[p].service_categories

\* C9 (as claimed): a reject action that moves an application to REJECTED
\* leaves it with a non-empty rejection_reason.
C9_RejectRecordsReason ==
    [][\A p \in ProviderIds :
        (/\ last'.op = "reject_providers"
         /\ providers'[p].verification_status = "REJECTED"
         /\ providers[p].verification_status # "REJECTED") =>
            providers'[p].rejection_reason # ""]_vars

\* C10: leaving aside the administrator's change form, a registration payment
\* becomes SUCCESS only in a step of payment_callback whose signature is
\* HMAC-SHA256(secret, order_id|payment_id), from a PENDING row whose
\* gateway_ref is that order_id; after the step the owning account is active.
C10_SuccessOnlyByVerifiedCallback ==
    [][\A i \in 1..Len(payments') :
        (/\ last'.op # "admin_change_payment"
         /\ payments'[i].status = "SUCCESS"
         /\ (i \notin PaymentIds \/ payments[i].status # "SUCCESS")) =>
            /\ last'.op = "payment_callback"
            /\ last'.req[3] = HmacSha256(KeySecret, SignedText(last'.req[1], last'.req[2]))
            /\ i \in PaymentIds
            /\ payments[i].status = "PENDING"
            /\ payments[i].gateway_ref = last'.req[1]
            /\ users'[payments'[i].user].is_active]_vars

\* C10 witness: the callback rendered the success page for a payment that is
\* now SUCCESS and whose account is active.
C10_Witness ==
    /\ last.op = "payment_callback"
    /\ last.detail = "payment_success.html"
    /\ \E i \in PaymentIds :
        /\ payments[i].status = "SUCCESS"
        /\ payments[i].gateway_ref = last.req[1]
        /\ users[payments[i].user].is_active

\* The account a login request names: by phone, else by email.
NamedAccount(phone, email) == IF phone # None /\ AccountByPhone(phone) # None THEN AccountByPhone(phone) ELSE IF email # None THEN AccountByEmail(email) ELSE None

\* The login request carries the identifier and the password of an account.
CredentialsMatch(phone, email, password) == NamedAccount(phone, email) # None /\ users[NamedAccount(phone, email)].password /\ password = NamedAccount(phone, email)

\* The account has a confirmed registration payment.
HasPaid(a) == \E i \in PaymentIds : payments[i].user = a /\ payments[i].status = "SUCCESS"

\* C11 (as claimed): register leaves the new account inactive, and a login
\* with the correct credentials of a registered account is answered 403 as
\* long as the account has no confirmed registration payment.
C11_LoginGatedByPayment ==
    [][/\ last'.op = "register" => ~users'[Len(users')].is_active
       /\ (/\ last'.op = "login"
           /\ CredentialsMatch(last'.req[1], last'.req[2], last'.req[3])
           /\ ~users[NamedAccount(last'.req[1], last'.req[2])].is_superuser
           /\ ~HasPaid(NamedAccount(last'.req[1], last'.req[2]))) => last'.code = 403]_vars

\* C12 (as claimed): a second delivery of the callback that confirmed a
\* payment (same order id, payment id and valid signature, the payment being
\* SUCCESS) renders the success page again and changes no payment or account.
C12_CallbackReplayIsSuccess ==
    [][(/\ last'.op = "payment_callback"
        /\ PaymentCallback(TRUE, last'.req[1], last'.req[2], HmacSha256(KeySecret, SignedText(last'.req[1], last'.req[2])))
        /\ \E i \in PaymentIds : payments[i].status = "SUCCESS" /\ payments[i].gateway_ref = last'.req[1] /\ payments[i].gateway_order_id = last'.req[2]) =>
            /\ last'.detail = "payment_success.html"
            /\ payments' = payments
            /\ users' = users]_vars

\* C20: a login is answered 200 exactly when its credentials match an
\* account that is active and is not a captain whose admin_verified is false;
\* a request with a password and an identifier whose credentials match no
\* account is answered 401; matching credentials of an inactive account, or
\* of an active captain with admin_verified false, are answered 403; login
\* changes no row.
C20_LoginOutcome ==
    [][last'.op = "login" =>
        LET phone == last'.req[1]
            email == last'.req[2]
            password == last'.req[3]
            a == NamedAccount(phone, email)
            match == CredentialsMatch(phone, email, password)
        IN
        /\ (last'.code = 200) <=> (match /\ users[a].is_active /\ ~(users[a].is_captain /\ ~users[a].admin_verified))
        /\ (password # None /\ (phone # None \/ email # None) /\ ~match) => last'.code = 401
        /\ (match /\ ~users[a].is_active) => last'.code = 403
        /\ (match /\ users[a].is_active /\ users[a].is_captain /\ ~users[a].admin_verified) => last'.code = 403
        /\ UNCHANGED <<users, payments>>]_vars

\* C20 witness: the right credentials of an active captain whose
\* admin_verified is false were answered 403.
C20_Witness ==
    /\ last.op = "login"
    /\ last.code = 403
    /\ CredentialsMatch(last.req[1], last.req[2], last.req[3])
    /\ users[NamedAccount(last.req[1], last.req[2])].is_active
    /\ users[NamedAccount(last.req[1], last.req[2])].is_captain
    /\ ~users[NamedAccount(last.req[1], last.req[2])].admin_verified

\* C13: leaving aside the administrator's change form, a subscription
\* becomes ACTIVE only in a step of subscription_payment_callback whose
\* signature is HMAC-SHA256(secret, order_id|payment_id), from a PENDING row
\* whose gateway_order_id is that order_id; the step sets start_date to the
\* current time and gateway_payment_id to the payment id.
C13_ActiveOnlyByVerifiedCallback ==
    [][\A i \in 1..Len(subscriptions') :
        (/\ last'.op # "admin_change_subscription"
         /\ subscriptions'[i].status = "ACTIVE"
         /\ (i \notin SubscriptionIds \/ subscriptions[i].status # "ACTIVE")) =>
            /\ last'.op = "subscription_payment_callback"
            /\ last'.req[3] = HmacSha256(KeySecret, SignedText(last'.req[1], last'.req[2]))
            /\ i \in SubscriptionIds
            /\ subscriptions[i].status = "PENDING"
            /\ subscriptions[i].gateway_order_id = last'.req[1]
            /\ subscriptions'[i].start_date = now
            /\ subscriptions'[i].gateway_payment_id = last'.req[2]]_vars

\* C13 witness: the callback rendered the success page and the subscription
\* of its order is ACTIVE, started now, with the payment id recorded.
C13_Witness ==
    /\ last.op = "subscription_payment_callback"
    /\ last.detail = "subscription_success.html"
    /\ \E i \in SubscriptionIds :
        /\ subscriptions[i].status = "ACTIVE"
        /\ subscriptions[i].gateway_order_id = last.req[1]
        /\ subscriptions[i].gateway_payment_id = last.req[2]
        /\ subscriptions[i].start_date = now

\* The PENDING subscriptions of a provider.
PendingSubscriptions(subs, p) == {i \in 1..Len(subs) : subs[i].provider = p /\ subs[i].status = "PENDING"}

\* C14: a create_subscription_payment step for a provider that has a PENDING
\* subscription is answered 400, creates no row and requests no order, and
\* (the provider being VERIFIED and the plan valid) returns the id of a
\* PENDING subscription of that provider; a step for a provider without a
\* PENDING subscription leaves it with at most one.
C14_OnePendingSubscription ==
    [][(last'.op = "create_subscription_payment" /\ ProviderProfile(last'.user) # None) =>
        LET p == ProviderProfile(last'.user)
            pending == PendingSubscriptions(subscriptions, p)
        IN
        /\ pending # {} =>
            /\ last'.code = 400
            /\ subscriptions' = subscriptions
            /\ orders' = orders
        /\ (/\ pending # {}
            /\ providers[p].verification_status = "VERIFIED"
            /\ \E plan \in PLAN_CHOICES : CreateSubscriptionPayment(last'.user, plan, TRUE)) =>
                last'.detail \in {ToString(i) : i \in pending}
        /\ pending = {} => Cardinality(PendingSubscriptions(subscriptions', p)) <= 1]_vars

\* C14 witness: a request was answered 400 with the id of the caller's
\* PENDING subscription.
C14_Witness ==
    /\ last.op = "create_subscription_payment"
    /\ last.code = 400
    /\ ProviderProfile(last.user) # None
    /\ \E i \in PendingSubscriptions(subscriptions, ProviderProfile(last.user)) : last.detail = ToString(i)

\* C16: a create_subscription_payment step by a caller without a profile is
\* answered 404, one for a provider that is not VERIFIED is answered 400;
\* neither creates a subscription nor requests a gateway order.
C16_SubscriptionNeedsVerified ==
    [][last'.op = "create_subscription_payment" =>
        LET p == ProviderProfile(last'.user) IN
        /\ p = None => (last'.code = 404 /\ subscriptions' = subscriptions /\ orders' = orders)
        /\ (p # None /\ providers[p].verification_status # "VERIFIED") =>
            (last'.code = 400 /\ subscriptions' = subscriptions /\ orders' = orders)]_vars

\* C16 witness: a provider that is not VERIFIED asked for a subscription and
\* was answered 400.
C16_Witness ==
    /\ last.op = "create_subscription_payment"
    /\ last.code = 400
    /\ ProviderProfile(last.user) # None
    /\ providers[ProviderProfile(last.user)].verification_status # "VERIFIED"
    /\ last.detail = "not verified"

\* C18: a registration or subscription callback whose signature is not
\* HMAC-SHA256(secret, order_id|payment_id) renders a failure or error page
\* and changes no payment, subscription or account.
C18_ForgedCallbackRejected ==
    [][(/\ last'.op \in {"payment_callback", "subscription_payment_callback"}
        /\ last'.req[3] # HmacSha256(KeySecret, SignedText(last'.req[1], last'.req[2]))) =>
            /\ last'.detail \in {"payment_failure.html", "payment_error.html"}
            /\ UNCHANGED <<payments, subscriptions, users>>]_vars

\* C18 witness: a subscription callback that names the order of a PENDING
\* subscription with a digest made with another key was shown the failure
\* page.
C18_Witness ==
    /\ last.op = "subscription_payment_callback"
    /\ last.detail = "payment_failure.html"
    /\ last.req[3] = HmacSha256("other_key", SignedText(last.req[1], last.req[2]))
    /\ \E i \in SubscriptionIds : subscriptions[i].status = "PENDING" /\ subscriptions[i].gateway_order_id = last.req[1]

\* C19: an order-creation step during which the gateway call fails is not
\* answered 201 and writes no payment or subscription row; a step answered
\* 500 has written none.
C19_GatewayFailureWritesNothing ==
    [][/\ (/\ last'.op = "create_payment_link"
           /\ \E user_id \in 0..(MaxUsers + 1) : CreatePaymentLink(user_id, FALSE)) =>
              (last'.code # 201 /\ UNCHANGED <<payments, subscriptions, orders>>)
       /\ (/\ last'.op = "create_subscription_payment"
           /\ \E plan \in PlanInputs : CreateSubscriptionPayment(last'.user, plan, FALSE)) =>
              (last'.code # 201 /\ UNCHANGED <<payments, subscriptions, orders>>)
       /\ (last'.op \in {"create_payment_link", "create_subscription_payment"} /\ last'.code = 500) =>
              UNCHANGED <<payments, subscriptions, orders>>]_vars

\* C19 witness: a VERIFIED provider without a PENDING subscription asked for
\* one, the gateway call failed, the answer was 500.
C19_Witness ==
    /\ last.op = "create_subscription_payment"
    /\ last.code = 500
    /\ providers[ProviderProfile(last.user)].verification_status = "VERIFIED"
    /\ PendingSubscriptions(subscriptions, ProviderProfile(last.user)) = {}

\* C15: in every interleaving of concurrent order creations, a provider has
\* at most one PENDING subscription and an account at most one PENDING
\* registration payment.
C15_AtMostOnePendingUnderRaces ==
    /\ \A p \in ProviderIds : Cardinality(PendingSubscriptions(subscriptions, p)) <= 1
    /\ \A u \in UserIds : Cardinality({i \in PaymentIds : payments[i].user = u /\ payments[i].status = "PENDING"}) <= 1

\* C17: a status transition is atomic on its row: the write of a
\* verification or of a profile edit is the one the handler makes when it
\* runs without interruption on the row as it is at the write, so a
\* verification writes VERIFIED only over PENDING_VERIFICATION and no column
\* written by another request in between is put back.
C17_TransitionsAreAtomic ==
    [][\A r \in inflight :
        (inflight' = inflight \ {r}) =>
            /\ r.op = "verify_provider_service" =>
                /\ providers[r.profile].verification_status = "PENDING_VERIFICATION"
                /\ providers' = [providers EXCEPT ![r.profile] = VerifiedRow(@, r.user)]
            /\ r.op = "get_provider_profile" =>
                providers' = [providers EXCEPT ![ProviderProfile(r.user)] = UpdateRow(@, r.data)]]_vars

\* The PENDING registration payments of an account.
PendingPayments(pays, a) == {i \in 1..Len(pays) : pays[i].user = a /\ pays[i].status = "PENDING"}

\* C21: a create_payment_link step for an account with a PENDING payment
\* that has its gateway order is answered 200 with that payment's id and
\* writes nothing; a step for an account with a SUCCESS payment is answered
\* 400 and writes nothing; and a step for an account with at most one
\* PENDING payment leaves it with at most one.
C21_OnePendingPayment ==
    [][last'.op = "create_payment_link" =>
        \A user_id \in UserIds, ok \in BOOLEAN :
            (UserExists(user_id) /\ CreatePaymentLink(user_id, ok)) =>
                LET pending == PendingPayments(payments, user_id)
                    paid == \E i \in PaymentIds : payments[i].user = user_id /\ payments[i].status = "SUCCESS"
                IN
                /\ paid => (last'.code = 400 /\ payments' = payments /\ orders' = orders)
                /\ (~paid /\ pending # {} /\ \A i \in pending : payments[i].gateway_ref # None) =>
                    /\ last'.code = 200
                    /\ last'.detail \in {ToString(i) : i \in pending}
                    /\ payments' = payments
                    /\ orders' = orders
                /\ Cardinality(pending) <= 1 => Cardinality(PendingPayments(payments', user_id)) <= 1
                /\ Len(payments') > Len(payments) => (pending = {} /\ ~paid)]_vars

\* C21 witness: a request for an account with a PENDING payment was answered
\* 200 with the id of that payment, and the account has one PENDING payment.
C21_Witness ==
    /\ last.op = "create_payment_link"
    /\ last.code = 200
    /\ \E a \in UserIds : UserExists(a) /\ Cardinality(PendingPayments(payments, a)) = 1 /\ \E i \in PendingPayments(payments, a) : last.detail = ToString(i)

\* C22: every ACTIVE subscription ends on the date one calendar month
\* (MONTHLY) or one calendar year (YEARLY) after the date it starts: the
\* same day of the next month, or of the same month of the next year, cut to
\* the last day of that month when it is shorter; and it ends after it
\* starts.
C22_EndDateIsCalendarAware ==
    \A i \in SubscriptionIds :
        subscriptions[i].status = "ACTIVE" =>
            LET start == DateOf(subscriptions[i].start_date)
                end == DateOf(subscriptions[i].end_date)
                monthly == subscriptions[i].plan_type = "MONTHLY"
            IN
            /\ monthly => IF start[2] = 12 THEN end[1] = start[1] + 1 /\ end[2] = 1 ELSE end[1] = start[1] /\ end[2] = start[2] + 1
            /\ ~monthly => (end[1] = start[1] + 1 /\ end[2] = start[2])
            /\ end[3] = start[3] \/ (end[3] < start[3] /\ end[3] = DaysInMonth(end[1], end[2]))
            /\ subscriptions[i].end_date > subscriptions[i].start_date

\* C22 witness: a MONTHLY subscription confirmed on 31 January of a leap
\* year ends on 29 February, 29 days later.
C22_Witness ==
    /\ last.op = "subscription_payment_callback"
    /\ \E i \in SubscriptionIds :
        /\ subscriptions[i].status = "ACTIVE"
        /\ subscriptions[i].plan_type = "MONTHLY"
        /\ DateOf(subscriptions[i].start_date) = <<EpochYear, 1, 31>>
        /\ DateOf(subscriptions[i].end_date) = <<EpochYear, 2, 29>>
        /\ subscriptions[i].end_date = subscriptions[i].start_date + 29

\* The subscriptions of a provider that are ACTIVE and have not ended.
CurrentSubscriptions(p) == {i \in SubscriptionIds : subscriptions[i].provider = p /\ subscriptions[i].status = "ACTIVE" /\ subscriptions[i].end_date >= now}

\* C23: leaving aside the administrator's change form, a subscription that
\* is ACTIVE stays ACTIVE in every step, whatever time passes; and a step of
\* get_active_subscription changes nothing and is answered 200, with the id
\* of an ACTIVE subscription of the caller's provider whose end_date is not
\* before now, exactly when there is one, and 404 otherwise.
C23_ActiveIsDerivedOnRead ==
    [][/\ \A i \in SubscriptionIds :
            (last'.op # "admin_change_subscription" /\ subscriptions[i].status = "ACTIVE") => subscriptions'[i] = subscriptions[i]
       /\ last'.op = "get_active_subscription" =>
            LET p == ProviderProfile(last'.user) IN
            /\ UNCHANGED <<users, providers, payments, subscriptions, orders, now>>
            /\ last'.code = 200 <=> (p # None /\ CurrentSubscriptions(p) # {})
            /\ last'.code = 200 => last'.detail \in {ToString(i) : i \in CurrentSubscriptions(p)}
            /\ last'.code # 200 => last'.code = 404]_vars

\* C23 witness: a provider whose only subscription is still ACTIVE in the
\* table but ended before now is told that it has no active subscription.
C23_Witness ==
    /\ last.op = "get_active_subscription"
    /\ last.code = 404
    /\ ProviderProfile(last.user) # None
    /\ \E i \in SubscriptionIds :
        /\ subscriptions[i].provider = ProviderProfile(last.user)
        /\ subscriptions[i].status = "ACTIVE"
        /\ subscriptions[i].gateway_payment_id # None
        /\ subscriptions[i].end_date < now

\* C24: a create_subscription_payment step answered 201 asks the gateway
\* for 23482 paise and stores a row of amount 234.82 with 1 listing slot for
\* the MONTHLY plan, and asks for 176882 paise and stores 1768.82 with 3
\* slots for the YEARLY plan: the base price plus 18%, to the paisa.
C24_AmountIsBasePlusGst ==
    [][(last'.op = "create_subscription_payment" /\ last'.code = 201) =>
        LET row == subscriptions'[Len(subscriptions')] IN
        /\ Len(subscriptions') = Len(subscriptions) + 1
        /\ row.plan_type \in PLAN_CHOICES
        /\ row.plan_type = "MONTHLY" => (last'.req = <<23482>> /\ row.amount = 23482 /\ row.listing_slots = 1)
        /\ row.plan_type = "YEARLY" => (last'.req = <<176882>> /\ row.amount = 176882 /\ row.listing_slots = 3)
        /\ 100 * row.amount = 118 * 100 * PlanBase(row.plan_type)]_vars

\* C24 witness: a YEARLY subscription was created for 1768.82 with 3 slots.
C24_Witness ==
    /\ last.op = "create_subscription_payment"
    /\ last.code = 201
    /\ last.req = <<176882>>
    /\ subscriptions[Len(subscriptions)].plan_type = "YEARLY"
    /\ subscriptions[Len(subscriptions)].amount = 176882
    /\ subscriptions[Len(subscriptions)].listing_slots = 3

\* Every account of `accounts` has a phone or an email, and no phone and no
\* email belongs to two of them.
IdentifiersAreUnique(accounts) ==
    /\ \A a \in 1..Len(accounts) : accounts[a].phone # None \/ accounts[a].email # None
    /\ \A a, b \in 1..Len(accounts) :
        a # b => /\ accounts[a].phone # None => accounts[a].phone # accounts[b].phone
                 /\ accounts[a].email # None => accounts[a].email # accounts[b].email

\* C25: after every step each account has a phone or an email and no two
\* accounts have the same phone or the same email; and a register step that
\* gives neither, or gives a phone or an email that an account has, is
\* answered 400 and creates no account.
C25_IdentifiersAreUnique ==
    [][/\ IdentifiersAreUnique(users')
       /\ last'.op = "register" =>
            LET phone == last'.req[1]
                email == last'.req[2]
                taken == \E a \in 1..Len(users) : (phone # None /\ users[a].phone = phone) \/ (email # None /\ users[a].email = email)
            IN /\ ((phone = None /\ email = None) \/ taken) => (last'.code = 400 /\ users' = users)
               /\ last'.code = 400 => users' = users]_vars

\* C25 witness: with two accounts registered, a request with a new phone and
\* the email of one of them was answered 400.
C25_Witness ==
    /\ last.op = "register"
    /\ last.code = 400
    /\ Len(users) = 2
    /\ last.req[1] # None
    /\ AccountByPhone(last.req[1]) = None
    /\ last.req[2] # None
    /\ AccountByEmail(last.req[2]) # None

(***************************************************************************)
(* Application identifiers. An identifier is a string, held here as the    *)
(* sequence of the code points of its characters, so that the filter       *)
(* application_id__startswith, the string order of order_by and the        *)
(* parsing of the last field are computed as the database and Python do.   *)
(***************************************************************************)

\* The applicants of the identifier specification.
MaxApplicants == 3

\* ord('-')
Dash == 45

\* ord('0')
Zero == 48

\* 'BA-PRV-'
Prefix == <<66, 65, Dash, 80, 82, 86, Dash>>

\* The minimum width of the sequence number, 05d.
SeqWidth == 5

RECURSIVE Str(_)
\* str(n) for a natural number.
Str(n) == IF n < 10 THEN <<Zero + n>> ELSE Append(Str(n \div 10), Zero + (n % 10))

\* The format 0<width>d applied to the digits s: zeros on the left up to
\* the width, nothing cut.
ZeroPadded(s, width) == IF Len(s) >= width THEN s ELSE [i \in 1..(width - Len(s)) |-> Zero] \o s

\* f'BA-PRV-{year}-{new_num:05d}'
ApplicationId(year, new_num) == Prefix \o Str(year) \o <<Dash>> \o ZeroPadded(Str(new_num), SeqWidth)

\* s.startswith(p)
StartsWith(s, p) == Len(s) >= Len(p) /\ SubSeq(s, 1, Len(p)) = p

\* a < b in the order of strings: at the first place where they differ, a
\* has ended or has the lower character.
Before(a, b) == \E i \in 1..Len(b) : (\A j \in 1..(i - 1) : j <= Len(a) /\ a[j] = b[j]) /\ (i > Len(a) \/ a[i] < b[i])

\* s.split('-')[-1]
LastField(s) ==
    LET dashes == {i \in 1..Len(s) : s[i] = Dash}
        k == IF dashes = {} THEN 0 ELSE CHOOSE i \in dashes : \A j \in dashes : j <= i
    IN SubSeq(s, k + 1, Len(s))

RECURSIVE ParseInt(_)
\* int(s) for a string of digits.
ParseInt(s) == IF Len(s) = 0 THEN 0 ELSE 10 * ParseInt(SubSeq(s, 1, Len(s) - 1)) + (s[Len(s)] - Zero)

\* timezone.now().year
Year == DateOf(now)[1]

\* ServiceProvider.objects.filter(application_id__startswith=f'BA-PRV-{year}')
\* .order_by('-application_id').first(): the identifier of that row, the
\* empty string when there is none.
LastProvider(year) ==
    LET ids == {providers[p].application_id : p \in 1..Len(providers)}
        found == {a \in ids : StartsWith(a, Prefix \o Str(year))}
    IN IF found = {} THEN <<>> ELSE CHOOSE a \in found : \A b \in found : ~Before(a, b)

\* ServiceProvider.save, the branch of an instance without identifier.
NewApplicationId(year) ==
    LET last_provider == LastProvider(year)
        new_num == IF last_provider # <<>> THEN ParseInt(LastField(last_provider)) + 1 ELSE 1
    IN ApplicationId(year, new_num)

\* The row ServiceProviderCreateSerializer.create saves: the columns of
\* CreateRow and the identifier save() has put on the instance.
ApplicationRow(u, data, application_id) == [application_id |-> application_id] @@ CreateRow(u, data)

\* The applicants' accounts.
Applicants == 1..MaxApplicants

\* The row of applicant u, None when the applicant has none.
ApplicationOf(u) == IF \E p \in 1..Len(providers) : providers[p].user = u THEN CHOOSE p \in 1..Len(providers) : providers[p].user = u ELSE None

\* The first save of an application up to super().save(): the view finds no
\* profile for the user, the serializer is valid, and save() reads the last
\* identifier of the year and puts the next one on the instance.
BeginFirstSave(u) ==
    /\ ApplicationOf(u) = None
    /\ Cardinality(inflight) < MaxInflight
    /\ inflight' = inflight \cup {[id |-> FreeSlot, op |-> "save", user |-> u, row |-> ApplicationRow(u, FullProfile, NewApplicationId(Year))]}
    /\ last' = [op |-> "save", code |-> 0, detail |-> "", user |-> u, req |-> <<NewApplicationId(Year)>>]
    /\ UNCHANGED <<captain_profiles, users, providers, payments, subscriptions, orders, now>>

\* super().save() of a first save: the INSERT, which the unique indexes on
\* application_id and on user_id refuse with an IntegrityError (a 500
\* reply) when a row holds the value.
FinishFirstSave(r) ==
    /\ r \in inflight
    /\ r.op = "save"
    /\ inflight' = inflight \ {r}
    /\ IF \E p \in 1..Len(providers) : providers[p].application_id = r.row.application_id \/ providers[p].user = r.user
       THEN /\ UNCHANGED providers
            /\ last' = [op |-> "insert", code |-> 500, detail |-> "", user |-> r.user, req |-> <<r.row.application_id>>]
       ELSE /\ providers' = Append(providers, r.row)
            /\ last' = [op |-> "insert", code |-> 201, detail |-> "", user |-> r.user, req |-> <<r.row.application_id>>]
    /\ UNCHANGED <<captain_profiles, users, payments, subscriptions, orders, now>>

\* A later save of an application: submit_provider_application sets the
\* status and the date and calls provider.save(), which finds an
\* identifier on the instance and leaves it.
LaterSave(u) ==
    /\ ApplicationOf(u) # None
    /\ providers[ApplicationOf(u)].verification_status = "DRAFT"
    /\ providers' = [providers EXCEPT ![ApplicationOf(u)] = [@ EXCEPT !.verification_status = "PENDING_VERIFICATION", !.submitted_at = now]]
    /\ last' = [op |-> "submit_provider_application", code |-> 200, detail |-> "", user |-> u, req |-> <<>>]
    /\ UNCHANGED <<captain_profiles, users, payments, subscriptions, orders, inflight, now>>

\* The clock reaches 1 January of the year after EpochYear.
YearEnds ==
    /\ Year = EpochYear
    /\ now' = DayNumber(<<EpochYear + 1, 1, 1>>)
    /\ last' = [op |-> "tick", code |-> 0, detail |-> "", user |-> None, req |-> <<>>]
    /\ UNCHANGED <<captain_profiles, users, providers, payments, subscriptions, orders, inflight>>

\* The sequence numbers the year's last application may have when the
\* applicants arrive: none yet, the first, and the last two of SeqWidth
\* digits.
StartSeqs == {0, 1, 10^SeqWidth - 2, 10^SeqWidth - 1}

\* The table when the applicants arrive: empty, or holding the last
\* application of EpochYear, made by an account that is not one of them.
\* The year's earlier applications come before it in the order of strings
\* and in the order of numbers, play no part in the scan, and are left out.
InitIds ==
    /\ users = <<Superuser>> \o [u \in 1..MaxApplicants |-> NewUser(u + 1, None, FALSE, TRUE)]
    /\ \E n \in StartSeqs : providers = IF n = 0 THEN <<>> ELSE <<ApplicationRow(MaxApplicants + 1, FullProfile, ApplicationId(EpochYear, n))>>
    /\ payments = <<>>
    /\ subscriptions = <<>>
    /\ orders = 0
    /\ inflight = {}
    /\ captain_profiles = <<>>
    /\ now = 1
    /\ last = [op |-> "init", code |-> 0, detail |-> "", user |-> None, req |-> <<>>]

\* Identifiers: first saves in two steps, later saves and the turn of the
\* year.
NextIds ==
    \/ \E u \in Applicants : BeginFirstSave(u)
    \/ \E r \in inflight : FinishFirstSave(r)
    \/ \E u \in Applicants : LaterSave(u)
    \/ YearEnds

SpecIds == InitIds /\ [][NextIds]_vars

\* The highest sequence number among the rows of a year, 0 when the year
\* has none.
HighestSeq(year) ==
    LET nums == {ParseInt(LastField(providers[p].application_id)) : p \in {q \in 1..Len(providers) : StartsWith(providers[q].application_id, Prefix \o Str(year) \o <<Dash>>)}}
    IN IF nums = {} THEN 0 ELSE CHOOSE n \in nums : \A m \in nums : m <= n

\* C26: no two applications in the table have the same identifier, every
\* step leaves the identifier of every row as it was, and
\* the identifier a first save puts on its instance is BA-PRV-<year>-<seq>
\* with seq one more than the highest sequence number of that year in the
\* table (1 when the year has none).
C26_ApplicationIdsUniqueAndStable ==
    [][/\ \A p, q \in 1..Len(providers') : p # q => providers'[p].application_id # providers'[q].application_id
       /\ \A p \in 1..Len(providers) : providers'[p].application_id = providers[p].application_id
       /\ last'.op = "save" => last'.req[1] = ApplicationId(Year, HighestSeq(Year) + 1)]_vars

\* Every provider of the table `provs` with a PENDING or ACTIVE subscription
\* in `subs` is VERIFIED.
PaidProvidersVerified(provs, subs) == \A i \in 1..Len(subs) : subs[i].status \in {"PENDING", "ACTIVE"} => provs[subs[i].provider].verification_status = "VERIFIED"

\* C27: a step of a view (an edit, a submit, an order, a payment callback;
\* the admin change forms apart) that starts with every provider of a
\* PENDING or ACTIVE subscription VERIFIED ends so.
C27_PaidProviderStaysVerified ==
    [][(PaidProvidersVerified(providers, subscriptions) /\ last'.op \notin {"admin_change_provider", "admin_change_subscription"}) => PaidProvidersVerified(providers', subscriptions')]_vars

(***************************************************************************)
(* payment_callback as its two saves: payment.save() and, for an account   *)
(* that is not active, user.save().                                        *)
(***************************************************************************)

\* payment_callback up to payment.save(): the page is chosen, the payment
\* and its user are read, and the payment row is written. The request
\* waits with the user it read when that user is not active.
BeginPaymentCallback(post, order_id, payment_id, signature) ==
    /\ Cardinality(inflight) < MaxInflight
    /\ IF CallbackPage(post, order_id, payment_id, signature) = "payment_success.html"
       THEN LET i == PendingPaymentFor(order_id)
                user == payments[i].user
            IN /\ payments' = [payments EXCEPT ![i] = PaidRow(@, payment_id)]
               /\ IF users[user].is_active
                  THEN /\ UNCHANGED inflight
                       /\ last' = [op |-> "payment_callback", code |-> 200, detail |-> "payment_success.html", user |-> None, req |-> <<order_id, payment_id, signature>>]
                  ELSE /\ inflight' = inflight \cup {[id |-> FreeSlot, op |-> "payment_callback", user |-> user, row |-> users[user], req |-> <<order_id, payment_id, signature>>]}
                       /\ last' = [op |-> "payment_callback", code |-> 0, detail |-> "", user |-> None, req |-> <<order_id, payment_id, signature>>]
       ELSE /\ UNCHANGED <<payments, inflight>>
            /\ last' = [op |-> "payment_callback", code |-> 200, detail |-> CallbackPage(post, order_id, payment_id, signature), user |-> None, req |-> <<order_id, payment_id, signature>>]
    /\ UNCHANGED <<captain_profiles, users, providers, orders, now, subscriptions>>

\* payment_callback from user.is_active = True on: user.save() writes the
\* columns of the user that was read, and the success page is rendered.
FinishPaymentCallback(r) ==
    /\ r \in inflight
    /\ r.op = "payment_callback"
    /\ users' = [users EXCEPT ![r.user] = ActivatedUser(r.row)]
    /\ inflight' = inflight \ {r}
    /\ last' = [op |-> "payment_callback", code |-> 200, detail |-> "payment_success.html", user |-> None, req |-> r.req]
    /\ UNCHANGED <<captain_profiles, payments, providers, orders, now, subscriptions>>

\* Activation: registration, the user change form limited to the active
\* flag, order creation, and the gateway callback in its two saves.
NextActivate ==
    \/ RegisterNew(FALSE, TRUE)
    \/ \E u \in UserIds, t \in UserIds, a \in BOOLEAN : UserExists(t) /\ AdminChangeUser(u, t, a, users[t].is_staff)
    \/ \E user_id \in UserIds, ok \in BOOLEAN : CreatePaymentLink(user_id, ok)
    \/ \E post \in BOOLEAN, o \in 0..MaxOrders, p \in 0..MaxGatewayPayments, sig \in Signatures : BeginPaymentCallback(post, o, p, sig)
    \/ \E r \in inflight : FinishPaymentCallback(r)

SpecActivate == Init /\ [][NextActivate]_vars

\* Every account of `accounts` that owns a SUCCESS payment of `pays` is
\* active.
PaidAccountsActive(accounts, pays) == \A i \in 1..Len(pays) : pays[i].status = "SUCCESS" => accounts[pays[i].user].is_active

\* C28: a step of payment_callback, either of its saves, that starts with
\* every owner of a SUCCESS registration payment active ends so (the state
\* between payment.save() and user.save() included).
C28_PaidAccountIsActive ==
    [][(PaidAccountsActive(users, payments) /\ last'.op = "payment_callback") => PaidAccountsActive(users', payments')]_vars

\* C29: a subscription_payment_callback step with the valid signature of
\* its order id and payment id, for an order whose subscription is ACTIVE,
\* leaves every subscription as it was: status, start_date, end_date and
\* gateway_payment_id of that one, and every column of the others.
C29_ReplayChangesNothing ==
    [][(/\ last'.op = "subscription_payment_callback"
        /\ last'.req[1] # None
        /\ last'.req[2] # None
        /\ last'.req[3] = HmacSha256(KeySecret, SignedText(last'.req[1], last'.req[2]))
        /\ \E i \in SubscriptionIds : subscriptions[i].gateway_order_id = last'.req[1] /\ subscriptions[i].status = "ACTIVE") =>
            subscriptions' = subscriptions]_vars

\* C29 witness: the callback that activated a subscription on an earlier day
\* was sent again with the same order id, payment id and signature, and the
\* subscription is as the first callback left it.
C29_Witness ==
    /\ last.op = "subscription_payment_callback"
    /\ last.req[3] = HmacSha256(KeySecret, SignedText(last.req[1], last.req[2]))
    /\ last.detail = "payment_error.html"
    /\ \E i \in SubscriptionIds :
        /\ subscriptions[i].gateway_order_id = last.req[1]
        /\ subscriptions[i].gateway_payment_id = last.req[2]
        /\ subscriptions[i].status = "ACTIVE"
        /\ subscriptions[i].start_date < now
        /\ subscriptions[i].end_date = EndDate(subscriptions[i].start_date, subscriptions[i].plan_type)

(***************************************************************************)
(* Captain verification. captain_profiles is the captain_profiles table.   *)
(***************************************************************************)

CaptainProfileIds == 1..Len(captain_profiles)

\* user.captain_profile: the row of the account, None when it has none.
CaptainProfileOf(u) == IF \E c \in CaptainProfileIds : captain_profiles[c].user = u THEN CHOOSE c \in CaptainProfileIds : captain_profiles[c].user = u ELSE None

\* User.objects.get(captain_code=...)
AccountByCaptainCode(captain_code) == IF \E a \in 1..Len(users) : CaptainCode(a) = captain_code THEN CHOOSE a \in 1..Len(users) : CaptainCode(a) = captain_code ELSE None

\* The account submit_captain_verification finds: by captain_code when one
\* is sent, by phone otherwise.
SubmittingCaptain(phone, captain_code) == IF captain_code # None THEN AccountByCaptainCode(captain_code) ELSE AccountByPhone(phone)

\* The status code of submit_captain_verification; phone and captain_code
\* are None when absent, aadhaar_front and aadhaar_back tell whether the
\* file was sent.
SubmitCaptainResult(phone, captain_code, aadhaar_front, aadhaar_back) ==
    IF phone = None /\ captain_code = None THEN 400
    ELSE IF ~aadhaar_front THEN 400
    ELSE IF ~aadhaar_back THEN 400
    ELSE IF SubmittingCaptain(phone, captain_code) = None THEN 404
    ELSE IF ~users[SubmittingCaptain(phone, captain_code)].is_captain THEN 400
    ELSE IF users[SubmittingCaptain(phone, captain_code)].admin_verified THEN 400
    ELSE 200

\* CaptainProfile.objects.create(user=user, ..., verification_status='PENDING')
NewCaptainProfile(u) == [user |-> u, verification_status |-> "PENDING", verified_by |-> None, verification_date |-> None, rejection_reason |-> ""]

\* submit_captain_verification, the view of views.py (urlpatterns has no
\* route to it): the profile of the captain is created, or reset to
\* PENDING with its rejection_reason cleared.
SubmitCaptainVerification(phone, captain_code, aadhaar_front, aadhaar_back) ==
    /\ IF SubmitCaptainResult(phone, captain_code, aadhaar_front, aadhaar_back) = 200
       THEN LET user == SubmittingCaptain(phone, captain_code) IN
            IF CaptainProfileOf(user) # None
            THEN captain_profiles' = [captain_profiles EXCEPT ![CaptainProfileOf(user)] = [@ EXCEPT !.verification_status = "PENDING", !.rejection_reason = ""]]
            ELSE captain_profiles' = Append(captain_profiles, NewCaptainProfile(user))
       ELSE UNCHANGED captain_profiles
    /\ last' = [op |-> "submit_captain_verification", code |-> SubmitCaptainResult(phone, captain_code, aadhaar_front, aadhaar_back), detail |-> "", user |-> None, req |-> <<phone, captain_code>>]
    /\ UNCHANGED <<users, providers, payments, subscriptions, orders, inflight, now>>

\* The profiles an action of CaptainProfileAdmin works on:
\* queryset.filter(verification_status='PENDING').
PendingCaptains(queryset) == {c \in queryset \cap CaptainProfileIds : captain_profiles[c].verification_status = "PENDING"}

\* CaptainProfileAdmin.verify_captains
VerifyCaptains(u, queryset) ==
    /\ HasAdminAccess(u)
    /\ captain_profiles' = [c \in CaptainProfileIds |-> IF c \in PendingCaptains(queryset) THEN [captain_profiles[c] EXCEPT !.verification_status = "VERIFIED", !.verified_by = u, !.verification_date = now, !.rejection_reason = ""] ELSE captain_profiles[c]]
    /\ users' = [a \in 1..Len(users) |-> IF \E c \in PendingCaptains(queryset) : captain_profiles[c].user = a THEN [users[a] EXCEPT !.admin_verified = TRUE] ELSE users[a]]
    /\ last' = [op |-> "verify_captains", code |-> 302, detail |-> "info", user |-> u, req |-> <<>>]
    /\ UNCHANGED <<providers, payments, subscriptions, orders, inflight, now>>

\* CaptainProfileAdmin.reject_captains
RejectCaptains(u, queryset) ==
    /\ HasAdminAccess(u)
    /\ captain_profiles' = [c \in CaptainProfileIds |-> IF c \in PendingCaptains(queryset) THEN [captain_profiles[c] EXCEPT !.verification_status = "REJECTED", !.verified_by = u, !.verification_date = now] ELSE captain_profiles[c]]
    /\ users' = [a \in 1..Len(users) |-> IF \E c \in PendingCaptains(queryset) : captain_profiles[c].user = a THEN [users[a] EXCEPT !.admin_verified = FALSE] ELSE users[a]]
    /\ last' = [op |-> "reject_captains", code |-> 302, detail |-> "info", user |-> u, req |-> <<>>]
    /\ UNCHANGED <<providers, payments, subscriptions, orders, inflight, now>>

\* Captain verification: registration of captains and of other users, the
\* submission of documents, the two actions of CaptainProfileAdmin, the
\* user change form limited to admin_verified, and the clock.
NextCaptain ==
    \/ Tick
    \/ \E c \in BOOLEAN : RegisterNew(c, TRUE)
    \/ \E phone \in 0..MaxUsers, code \in 0..MaxUsers, front \in BOOLEAN, back \in BOOLEAN : SubmitCaptainVerification(phone, code, front, back)
    \/ \E u \in UserIds, queryset \in SUBSET (1..MaxUsers) : VerifyCaptains(u, queryset)
    \/ \E u \in UserIds, queryset \in SUBSET (1..MaxUsers) : RejectCaptains(u, queryset)
    \/ \E u \in UserIds, t \in UserIds, v \in BOOLEAN : AdminChangeCaptain(u, t, v)

SpecCaptain == Init /\ [][NextCaptain]_vars

\* C30: every captain account with admin_verified = true has a captain
\* profile, and that profile is VERIFIED.
C30_VerifiedCaptainHasVerifiedProfile ==
    \A a \in 1..Len(users) : (users[a].is_captain /\ users[a].admin_verified) => (CaptainProfileOf(a) # None /\ captain_profiles[CaptainProfileOf(a)].verification_status = "VERIFIED")

====
